---- MODULE Spec2Model ----
(***************************************************************************)
(* A model of the multilingual chat pipeline of the Multi-Model AI Chatbot *)
(* (src/app.py and the services under src/services).                       *)
(*                                                                         *)
(* Texts.  A Python string is modelled as a sequence of atoms.  An atom is *)
(* an indivisible piece of the string: a word, a blank " " or a            *)
(* punctuation mark.  Concatenation of strings is \o, the empty string is  *)
(* << >>, `x in s` is Contains(s, x), s.lower() is Lower(s), s.strip() is  *)
(* Strip(s) and len(s) is CharLen(s).  Words written in a non-Latin script *)
(* in the source are written here as ASCII stand-ins prefixed by the       *)
(* language ("zh_qing" for the politeness marker of line 94 of             *)
(* cultural_context_service.py); GlyphLen gives their real length.         *)
(*                                                                         *)
(* Numbers.  Confidences are integers in 1/10000 (0.7 is 7000); detector   *)
(* outputs and reliability weights are in 1/100.                           *)
(***************************************************************************)
EXTENDS Integers, Sequences, FiniteSets, TLC

-----------------------------------------------------------------------------
(* Strings as sequences of atoms *)

Separators == {" ", "?", ",", ".", ":", "!", "'", "-"}

\* str.lower() on one atom: <<x, y>> says that x.lower() is y.  Every atom
\* of the model that holds a capital letter is listed.
LowerPairs ==
  {<<"A", "a">>, <<"API", "api">>, <<"Bitte", "bitte">>, <<"Bom", "bom">>,
   <<"Bonjour", "bonjour">>, <<"Buenos", "buenos">>, <<"Create", "create">>,
   <<"Creo", "creo">>, <<"Error", "error">>, <<"Es", "es">>, <<"Eu", "eu">>,
   <<"France", "france">>, <<"Gemini", "gemini">>,
   <<"Generate", "generate">>, <<"Good", "good">>, <<"Guten", "guten">>,
   <<"HATE", "hate">>, <<"HOW", "how">>, <<"Hallo", "hallo">>,
   <<"Hello", "hello">>, <<"Hi", "hi">>, <<"Hola", "hola">>,
   <<"How", "how">>, <<"I", "i">>, <<"Ich", "ich">>, <<"Il", "il">>,
   <<"It", "it">>, <<"Je", "je">>, <<"MAKE", "make">>, <<"Make", "make">>,
   <<"Moeglicherweise", "moeglicherweise">>, <<"Morgen", "morgen">>,
   <<"Nazi", "nazi">>, <<"Oi", "oi">>, <<"Parece", "parece">>,
   <<"Paris", "paris">>, <<"Perhaps", "perhaps">>, <<"Peut", "peut">>,
   <<"Please", "please">>, <<"Pode", "pode">>, <<"Quizas", "quizas">>,
   <<"Salut", "salut">>, <<"Soviet", "soviet">>,
   <<"StreamlitAPIException", "streamlitapiexception">>, <<"TO", "to">>,
   <<"Taiwan", "taiwan">>, <<"Tal", "tal">>, <<"Talvez", "talvez">>,
   <<"The", "the">>, <<"Tibet", "tibet">>, <<"UNAVAILABLE", "unavailable">>,
   <<"Vielleicht", "vielleicht">>, <<"WEAPONS", "weapons">>,
   <<"WWII", "wwii">>}

\* The pairs as a function of the atom.
LowerMap ==
  [a \in {p[1] : p \in LowerPairs} |->
     (CHOOSE p \in LowerPairs : p[1] = a)[2]]

LowerAtom(a) == IF a \in DOMAIN LowerMap THEN LowerMap[a] ELSE a

Lower(s) == [i \in 1..Len(s) |-> LowerAtom(s[i])]

\* The length in characters of the atoms whose stand-in is not as long as
\* the word of the source: <<atom, length>>.
GlyphLen ==
  {<<"zh_qing", 1>>, <<"zh_wen", 1>>, <<"zh_comma", 1>>, <<"zh_xiexie", 2>>,
   <<"zh_bukeqi", 3>>, <<"zh_duibuqi", 3>>, <<"zh_baoqian", 2>>,
   <<"zh_wojuede", 3>>, <<"zh_sihu", 2>>, <<"zh_yexu", 2>>,
   <<"zh_keneng", 2>>, <<"zh_dagai", 2>>, <<"zh_zhongsuozhouzhi", 4>>,
   <<"ja_yoroshiku", 4>>, <<"ja_onegaishimasu", 6>>, <<"ja_maru", 1>>,
   <<"ja_arigatou", 10>>, <<"ja_sumimasen", 5>>, <<"ja_shitsurei", 5>>,
   <<"ja_toomoimasu", 5>>, <<"ja_youdesu", 4>>, <<"ja_tabun", 3>>,
   <<"ja_kamoshiremasen", 7>>, <<"ja_ne", 1>>, <<"ja_gozonji", 6>>,
   <<"ar_minfadlak", 7>>, <<"ar_shukran", 4>>, <<"ar_afwan", 4>>,
   <<"ar_asif", 3>>, <<"ar_aataqid", 5>>, <<"ar_kamataalam", 8>>,
   <<"hi_kripaya", 5>>, <<"hi_dhanyavad", 7>>, <<"hi_maafkariye", 8>>,
   <<"hi_kshama", 10>>, <<"hi_mujhelagtahai", 12>>, <<"hi_shayad", 4>>,
   <<"hi_sambhavatah", 6>>, <<"hi_jaisakiaapjantehain", 20>>,
   <<"ru_pozhaluysta", 10>>, <<"ru_spasibo", 7>>, <<"ru_izvinite", 8>>,
   <<"ru_prostite", 8>>, <<"ru_yadumayu", 7>>,
   <<"ar_yabdu", 4>>, <<"ar_rubbama", 4>>, <<"ar_minalmuhtamal", 10>>,
   <<"ru_kazhetsya", 7>>, <<"ru_vozmozhno", 8>>, <<"ru_mozhetbyt", 10>>,
   <<"zh_runinsuozhi", 4>>, <<"zh_zhengruwomen", 8>>, <<"ja_mochiron", 4>>,
   <<"ja_osasshi", 6>>, <<"ar_bittaba", 6>>, <<"ar_minalmaaruf", 13>>,
   <<"hi_jahirhai", 8>>, <<"hi_spashtrupse", 13>>,
   <<"zh_ninhao", 2>>, <<"ja_ohayougozaimasu", 9>>,
   <<"ar_assalamualaikum", 12>>, <<"hi_namaste", 6>>,
   <<"ru_zdravstvuyte", 12>>, <<"zh_nihao", 2>>, <<"ja_konnichiwa", 5>>,
   <<"ar_marhaba", 5>>, <<"hi_hello", 4>>, <<"ru_privet", 6>>,
   <<"schoen", 5>>, <<"Moeglicherweise", 14>>, <<"moeglicherweise", 14>>}

\* The lengths as a function of the atom.
GlyphMap ==
  [a \in {p[1] : p \in GlyphLen} |-> (CHOOSE p \in GlyphLen : p[1] = a)[2]]

AtomLen(a) == IF a \in DOMAIN GlyphMap THEN GlyphMap[a] ELSE Len(a)

RECURSIVE CharLen(_)
CharLen(s) == IF s = << >> THEN 0 ELSE AtomLen(Head(s)) + CharLen(Tail(s))

\* Proper substrings between the atoms of the model: <<x, y>> says that x
\* occurs inside y without being y.
ProperSub ==
  {<<"Tal", "Talvez">>, <<"age", "image">>, <<"be", "Tibet">>,
   <<"be", "beef">>, <<"be", "believe">>, <<"be", "glaube">>,
   <<"be", "tibet">>, <<"create", "created">>, <<"de", "Pode">>,
   <<"de", "democracy">>, <<"de", "description">>, <<"de", "desculpe">>,
   <<"de", "pode">>, <<"de", "provide">>, <<"de", "sidebar">>,
   <<"dia", "dias">>, <<"era", "Generate">>, <<"era", "generate">>,
   <<"era", "generated">>, <<"era", "generating">>, <<"es", "activities">>,
   <<"es", "description">>, <<"es", "desculpe">>, <<"es", "failures">>,
   <<"es", "finances">>, <<"es", "questions">>, <<"es", "request">>,
   <<"es", "respectfully">>, <<"es", "response">>, <<"eu", "Peut">>,
   <<"eu", "museums">>, <<"eu", "peut">>, <<"excuse", "excusez">>,
   <<"failure", "failures">>, <<"generate", "generated">>,
   <<"hate", "hateful">>, <<"hi", "history">>, <<"hi", "relationships">>,
   <<"hi", "think">>, <<"hi", "this">>, <<"ich", "Moeglicherweise">>,
   <<"ich", "Vielleicht">>, <<"ich", "moeglicherweise">>,
   <<"ich", "vielleicht">>, <<"il", "failure">>, <<"il", "failures">>,
   <<"il", "illegal">>, <<"il", "unavailable">>, <<"it", "Bitte">>,
   <<"it", "StreamlitAPIException">>, <<"it", "activities">>,
   <<"it", "bitte">>, <<"it", "capital">>, <<"it", "city">>,
   <<"it", "criticism">>, <<"it", "explicit">>, <<"it", "its">>,
   <<"it", "partition">>, <<"it", "plait">>, <<"it", "politics">>,
   <<"it", "streamlitapiexception">>, <<"me", "comment">>,
   <<"me", "income">>, <<"me", "merci">>, <<"me", "someone">>,
   <<"me", "welcome">>, <<"oi", "crois">>, <<"oi", "moi">>,
   <<"please", "pleased">>, <<"por", "pork">>, <<"que", "questions">>,
   <<"que", "request">>, <<"re", "Create">>, <<"re", "Creo">>,
   <<"re", "Parece">>, <<"re", "StreamlitAPIException">>,
   <<"re", "configure">>, <<"re", "create">>, <<"re", "created">>,
   <<"re", "creo">>, <<"re", "different">>, <<"re", "direct">>,
   <<"re", "encountered">>, <<"re", "etre">>, <<"re", "failure">>,
   <<"re", "failures">>, <<"re", "freedom">>, <<"re", "parece">>,
   <<"re", "relationships">>, <<"re", "religion">>, <<"re", "request">>,
   <<"re", "respectfully">>, <<"re", "response">>,
   <<"re", "streamlitapiexception">>, <<"se", "Moeglicherweise">>,
   <<"se", "Please">>, <<"se", "based">>, <<"se", "excuse">>,
   <<"se", "excusez">>, <<"se", "moeglicherweise">>, <<"se", "museums">>,
   <<"se", "please">>, <<"se", "pleased">>, <<"se", "response">>,
   <<"se", "seems">>, <<"se", "semble">>, <<"se", "ser">>,
   <<"tal", "capital">>, <<"tal", "talvez">>, <<"to", "history">>,
   <<"vez", "Talvez">>, <<"vez", "talvez">>, <<"weapon", "weapons">>,
   <<"you", "your">>}

\* <<x, y>>: y starts with x and is longer.
ProperPrefix ==
  {<<"Tal", "Talvez">>, <<"be", "beef">>, <<"be", "believe">>,
   <<"create", "created">>, <<"de", "democracy">>, <<"de", "description">>,
   <<"de", "desculpe">>, <<"dia", "dias">>, <<"excuse", "excusez">>,
   <<"failure", "failures">>, <<"generate", "generated">>,
   <<"hate", "hateful">>, <<"hi", "history">>, <<"il", "illegal">>,
   <<"it", "its">>, <<"me", "merci">>, <<"please", "pleased">>,
   <<"por", "pork">>, <<"que", "questions">>, <<"re", "relationships">>,
   <<"re", "religion">>, <<"re", "request">>, <<"re", "respectfully">>,
   <<"re", "response">>, <<"se", "seems">>, <<"se", "semble">>,
   <<"se", "ser">>, <<"tal", "talvez">>, <<"weapon", "weapons">>,
   <<"you", "your">>}

\* <<x, y>>: y ends with x and is longer.
ProperSuffix ==
  {<<"age", "image">>, <<"be", "glaube">>, <<"de", "Pode">>,
   <<"de", "pode">>, <<"de", "provide">>, <<"es", "activities">>,
   <<"es", "failures">>, <<"es", "finances">>, <<"it", "explicit">>,
   <<"it", "plait">>, <<"me", "income">>, <<"me", "welcome">>,
   <<"oi", "moi">>, <<"re", "configure">>, <<"re", "etre">>,
   <<"re", "failure">>, <<"se", "Moeglicherweise">>, <<"se", "Please">>,
   <<"se", "excuse">>, <<"se", "moeglicherweise">>, <<"se", "please">>,
   <<"se", "response">>, <<"tal", "capital">>, <<"vez", "Talvez">>,
   <<"vez", "talvez">>}

\* x in s for Python strings: x occurs at some offset of s.  The first atom
\* of x may end an atom of s and the last may begin one.
MatchAt(s, x, i) ==
  /\ i + Len(x) - 1 <= Len(s)
  /\ IF Len(x) = 1
       THEN x[1] = s[i] \/ <<x[1], s[i]>> \in ProperSub
       ELSE /\ x[1] = s[i] \/ <<x[1], s[i]>> \in ProperSuffix
            /\ \A k \in 2..(Len(x) - 1) : x[k] = s[i + k - 1]
            /\ \/ x[Len(x)] = s[i + Len(x) - 1]
               \/ <<x[Len(x)], s[i + Len(x) - 1]>> \in ProperPrefix

Contains(s, x) == x = << >> \/ \E i \in 1..Len(s) : MatchAt(s, x, i)

RECURSIVE StripLeft(_)
StripLeft(s) ==
  IF s # << >> /\ Head(s) = " " THEN StripLeft(Tail(s)) ELSE s

RECURSIVE StripRight(_)
StripRight(s) ==
  IF s # << >> /\ s[Len(s)] = " "
    THEN StripRight(SubSeq(s, 1, Len(s) - 1)) ELSE s

Strip(s) == StripRight(StripLeft(s))

\* re.search(r'\b(w1|w2|...)\b', s, re.IGNORECASE): a whole word of s is
\* one of the words, whatever its case.
WordSearch(words, s) ==
  \E i \in 1..Len(s) :
    /\ LowerAtom(s[i]) \in words
    /\ i = 1 \/ s[i - 1] \in Separators
    /\ i = Len(s) \/ s[i + 1] \in Separators

-----------------------------------------------------------------------------
(* services/content_filter.py *)

blocked_patterns ==
  << {"kill", "murder", "violence", "harm", "hurt", "attack"},
     {"hate", "racist", "discrimination"},
     {"explicit", "adult", "nsfw"},
     {"dangerous", "illegal", "drugs"} >>

harmful_requests ==
  << <<"how", " ", "to", " ", "make", " ", "weapons">>,
     <<"how", " ", "to", " ", "harm">>,
     <<"illegal", " ", "activities">>,
     <<"generate", " ", "explicit">>,
     <<"create", " ", "inappropriate">> >>

\* ContentFilter.is_content_safe with the harmful requests looked for before
\* the blocked patterns.
is_content_safe_requests_first(text) ==
  LET text_lower == Lower(Strip(text)) IN
  IF text = << >>
    THEN [safe |-> TRUE, reason |-> "Empty content"]
  ELSE IF \E k \in 1..Len(harmful_requests) :
            Contains(text_lower, harmful_requests[k])
    THEN [safe |-> FALSE, reason |-> "Request involves harmful content"]
  ELSE IF \E k \in 1..Len(blocked_patterns) :
            WordSearch(blocked_patterns[k], text)
    THEN [safe |-> FALSE, reason |-> "Content contains inappropriate material"]
  ELSE IF /\ \E kw \in {"generate", "create", "make"} :
               Contains(text_lower, <<kw>>)
          /\ Contains(text_lower, <<"image">>)
          /\ \E w \in {"nude", "naked", "explicit", "sexual", "violence",
                       "weapon"} : Contains(text_lower, <<w>>)
    THEN [safe |-> FALSE, reason |-> "Inappropriate image generation request"]
  ELSE [safe |-> TRUE, reason |-> "Content approved"]

\* ContentFilter.is_content_safe: (is_safe, reason).
is_content_safe(text) ==
  LET text_lower == Lower(Strip(text)) IN
  IF text = << >>
    THEN [safe |-> TRUE, reason |-> "Empty content"]
  ELSE IF \E k \in 1..Len(blocked_patterns) :
            WordSearch(blocked_patterns[k], text)
    THEN [safe |-> FALSE, reason |-> "Content contains inappropriate material"]
  ELSE IF \E k \in 1..Len(harmful_requests) :
            Contains(text_lower, harmful_requests[k])
    THEN [safe |-> FALSE, reason |-> "Request involves harmful content"]
  ELSE IF /\ \E kw \in {"generate", "create", "make"} :
               Contains(text_lower, <<kw>>)
          /\ Contains(text_lower, <<"image">>)
          /\ \E w \in {"nude", "naked", "explicit", "sexual", "violence",
                       "weapon"} : Contains(text_lower, <<w>>)
    THEN [safe |-> FALSE, reason |-> "Inappropriate image generation request"]
  ELSE [safe |-> TRUE, reason |-> "Content approved"]

-----------------------------------------------------------------------------
(* services/cultural_context_service.py *)

\* CulturalContextService._load_cultural_data: the attributes the pipeline
\* reads.
cultural_data ==
  [l \in {"en", "es", "fr", "de", "zh", "ja", "ar", "hi", "pt", "ru"} |->
    CASE l = "en" ->
      [region |-> "Global English", formality |-> "moderate",
       directness |-> "high", context |-> "low",
       politeness_markers |->
         << <<"please">>, <<"thank", " ", "you">>,
            <<"you", "'", "re", " ", "welcome">>, <<"excuse", " ", "me">> >>,
       taboo_topics |->
         << <<"personal", " ", "finances">>, <<"age">>, <<"weight">> >>]
    [] l = "es" ->
      [region |-> "Spanish-speaking countries", formality |-> "high",
       directness |-> "moderate", context |-> "high",
       politeness_markers |->
         << <<"por", " ", "favor">>, <<"gracias">>, <<"de", " ", "nada">>,
            <<"perdon">>, <<"disculpe">> >>,
       taboo_topics |->
         << <<"personal", " ", "income">>, <<"politics">>, <<"religion">> >>]
    [] l = "fr" ->
      [region |-> "French-speaking countries", formality |-> "very_high",
       directness |-> "moderate", context |-> "high",
       politeness_markers |->
         << <<"s", "'", "il", " ", "vous", " ", "plait">>, <<"merci">>,
            <<"de", " ", "rien">>, <<"excusez", "-", "moi">>, <<"pardon">> >>,
       taboo_topics |->
         << <<"money">>, <<"personal", " ", "life">>,
            <<"work", " ", "after", " ", "hours">> >>]
    [] l = "de" ->
      [region |-> "German-speaking countries", formality |-> "high",
       directness |-> "very_high", context |-> "low",
       politeness_markers |->
         << <<"bitte">>, <<"danke">>, <<"entschuldigung">>,
            <<"verzeihung">> >>,
       taboo_topics |->
         << <<"personal", " ", "finances">>, <<"Nazi", " ", "era">>,
            <<"personal", " ", "questions">> >>]
    [] l = "zh" ->
      [region |-> "Chinese-speaking regions", formality |-> "very_high",
       directness |-> "low", context |-> "very_high",
       politeness_markers |->
         << <<"zh_qing">>, <<"zh_xiexie">>, <<"zh_bukeqi">>,
            <<"zh_duibuqi">>, <<"zh_baoqian">> >>,
       taboo_topics |->
         << <<"politics">>, <<"Taiwan">>, <<"Tibet">>,
            <<"personal", " ", "failure">> >>]
    [] l = "ja" ->
      [region |-> "Japan", formality |-> "very_high",
       directness |-> "very_low", context |-> "very_high",
       politeness_markers |->
         << <<"ja_onegaishimasu">>, <<"ja_arigatou">>, <<"ja_sumimasen">>,
            <<"ja_shitsurei">> >>,
       taboo_topics |->
         << <<"WWII">>, <<"personal", " ", "failures">>,
            <<"direct", " ", "criticism">> >>]
    [] l = "ar" ->
      [region |-> "Arabic-speaking countries", formality |-> "high",
       directness |-> "moderate", context |-> "very_high",
       politeness_markers |->
         << <<"ar_minfadlak">>, <<"ar_shukran">>, <<"ar_afwan">>,
            <<"ar_asif">> >>,
       taboo_topics |->
         << <<"alcohol">>, <<"pork">>, <<"personal", " ", "relationships">>,
            <<"politics">> >>]
    [] l = "hi" ->
      [region |-> "India (Hindi)", formality |-> "high",
       directness |-> "low", context |-> "high",
       politeness_markers |->
         << <<"hi_kripaya">>, <<"hi_dhanyavad">>, <<"hi_maafkariye">>,
            <<"hi_kshama">> >>,
       taboo_topics |->
         << <<"beef">>, <<"caste", " ", "system">>, <<"partition">>,
            <<"poverty">> >>]
    [] l = "pt" ->
      [region |-> "Portuguese-speaking countries", formality |-> "moderate",
       directness |-> "moderate", context |-> "high",
       politeness_markers |->
         << <<"por", " ", "favor">>, <<"obrigado", "/", "obrigada">>,
            <<"de", " ", "nada">>, <<"desculpe">> >>,
       taboo_topics |->
         << <<"personal", " ", "income">>, <<"politics">>,
            <<"colonial", " ", "history">> >>]
    [] l = "ru" ->
      [region |-> "Russian-speaking countries", formality |-> "high",
       directness |-> "high", context |-> "high",
       politeness_markers |->
         << <<"ru_pozhaluysta">>, <<"ru_spasibo">>, <<"ru_izvinite">>,
            <<"ru_prostite">> >>,
       taboo_topics |->
         << <<"Soviet", " ", "era">>, <<"personal", " ", "finances">>,
            <<"politics">> >>]]

\* dict.get without a default profile: an unknown code gets the empty
\* profile.
get_cultural_context_no_default(language) ==
  IF language \in DOMAIN cultural_data
    THEN cultural_data[language]
    ELSE [a \in {} |-> ""]

\* CulturalContextService.get_cultural_context: dict.get with the 'en'
\* profile as default.
get_cultural_context(language) ==
  IF language \in DOMAIN cultural_data
    THEN cultural_data[language]
    ELSE cultural_data["en"]

\* CulturalContextService._increase_formality
increase_formality(text, language) ==
  LET politeness_markers == get_cultural_context(language).politeness_markers
      text_lower == Lower(text)
  IN
  IF /\ politeness_markers # << >>
     /\ ~ \E k \in 1..Len(politeness_markers) :
            Contains(text_lower, politeness_markers[k])
    THEN CASE language = "ja" ->
                text \o <<" ", "ja_yoroshiku", "ja_onegaishimasu", "ja_maru">>
           [] language = "de" -> text \o <<" ", "Bitte", " ", "schoen", ".">>
           [] language = "fr" ->
                <<"Je", " ", "vous", " ", "prie", " ", "de", " ">> \o Lower(text)
           [] language = "zh" -> <<"zh_qing", "zh_wen", "zh_comma">> \o text
           [] OTHER -> text
    ELSE text

\* The softening_phrases table of CulturalContextService._reduce_directness.
softening_phrases ==
  [l \in {"en", "es", "fr", "de", "zh", "ja", "ar", "hi", "pt", "ru"} |->
    CASE l = "en" -> << <<"I", " ", "believe">>, <<"It", " ", "seems">>,
                        <<"Perhaps">>,
                        <<"It", " ", "might", " ", "be", " ", "that">> >>
      [] l = "es" -> << <<"Creo", " ", "que">>, <<"Parece", " ", "que">>,
                        <<"Quizas">>, <<"Tal", " ", "vez">> >>
      [] l = "fr" -> << <<"Je", " ", "crois", " ", "que">>,
                        <<"Il", " ", "semble", " ", "que">>,
                        <<"Peut", "-", "etre">>,
                        <<"Il", " ", "se", " ", "peut", " ", "que">> >>
      [] l = "de" -> << <<"Ich", " ", "glaube">>, <<"Es", " ", "scheint">>,
                        <<"Vielleicht">>, <<"Moeglicherweise">> >>
      [] l = "zh" -> << <<"zh_wojuede">>, <<"zh_sihu">>, <<"zh_yexu">>,
                        <<"zh_keneng">> >>
      [] l = "ja" -> << <<"ja_toomoimasu">>, <<"ja_youdesu">>, <<"ja_tabun">>,
                        <<"ja_kamoshiremasen">> >>
      [] l = "ar" -> << <<"ar_aataqid">>, <<"ar_yabdu">>, <<"ar_rubbama">>,
                        <<"ar_minalmuhtamal">> >>
      [] l = "hi" -> << <<"hi_mujhelagtahai">>, <<"hi_shayad">>,
                        <<"hi_sambhavatah">> >>
      [] l = "pt" -> << <<"Eu", " ", "acho", " ", "que">>,
                        <<"Parece", " ", "que">>, <<"Talvez">>,
                        <<"Pode", " ", "ser", " ", "que">> >>
      [] l = "ru" -> << <<"ru_yadumayu">>, <<"ru_kazhetsya">>,
                        <<"ru_vozmozhno">>, <<"ru_mozhetbyt">> >>]

\* CulturalContextService._reduce_directness
reduce_directness(text, language) ==
  LET phrases == IF language \in DOMAIN softening_phrases
                   THEN softening_phrases[language]
                   ELSE softening_phrases["en"]
      text_lower == Lower(text)
  IN
  IF /\ phrases # << >>
     /\ ~ \E k \in 1..Len(phrases) :
            Contains(text_lower, Lower(phrases[k]))
    THEN phrases[1] \o <<" ">> \o Lower(text)
    ELSE text

\* CulturalContextService._add_indirectness
add_indirectness(text, language) ==
  IF language = "ja"
    THEN IF ~ \E m \in {"ja_kamoshiremasen", "ja_toomoimasu", "ja_youdesu"} :
                Contains(text, <<m>>)
           THEN text \o <<"ja_kamoshiremasen", "ja_ne", "ja_maru">>
           ELSE text
  ELSE IF language = "zh"
    THEN IF ~ \E m \in {"zh_keneng", "zh_yexu", "zh_dagai"} :
                Contains(text, <<m>>)
           THEN <<"zh_dagai">> \o text
           ELSE text
  ELSE text

\* The context_markers table of CulturalContextService._add_context_markers.
context_markers ==
  [l \in {"zh", "ja", "ar", "hi"} |->
    CASE l = "zh" -> << <<"zh_zhongsuozhouzhi">>, <<"zh_runinsuozhi">>,
                        <<"zh_zhengruwomen">> >>
      [] l = "ja" -> << <<"ja_gozonji">>, <<"ja_mochiron">>,
                        <<"ja_osasshi">> >>
      [] l = "ar" -> << <<"ar_kamataalam">>, <<"ar_bittaba">>,
                        <<"ar_minalmaaruf">> >>
      [] l = "hi" -> << <<"hi_jaisakiaapjantehain">>, <<"hi_jahirhai">>,
                        <<"hi_spashtrupse">> >>]

\* The length a response must exceed to get a context marker.
ContextMinLen == 50

\* CulturalContextService._add_context_markers
add_context_markers(text, language) ==
  LET markers == IF language \in DOMAIN context_markers
                   THEN context_markers[language]
                   ELSE << >>
  IN
  IF markers # << >> /\ CharLen(text) > ContextMinLen
    THEN markers[1] \o <<",", " ">> \o text
    ELSE text

\* CulturalContextService.adjust_response_style with the context step taken
\* before the formality and directness steps.
adjust_response_style_context_first(response, language) ==
  LET context == get_cultural_context(language)
      r1 == IF context.context \in {"high", "very_high"}
              THEN add_context_markers(response, language)
              ELSE response
      r2 == IF context.formality \in {"very_high", "high"}
              THEN increase_formality(r1, language)
              ELSE r1
  IN
  IF context.directness = "low"
    THEN reduce_directness(r2, language)
  ELSE IF context.directness = "very_low"
    THEN add_indirectness(r2, language)
  ELSE r2

\* CulturalContextService.adjust_response_style
adjust_response_style(response, language) ==
  LET context == get_cultural_context(language)
      r1 == IF context.formality \in {"very_high", "high"}
              THEN increase_formality(response, language)
              ELSE response
      r2 == IF context.directness = "low"
              THEN reduce_directness(r1, language)
            ELSE IF context.directness = "very_low"
              THEN add_indirectness(r1, language)
            ELSE r1
  IN
  IF context.context \in {"high", "very_high"}
    THEN add_context_markers(r2, language)
    ELSE r2

\* CulturalContextService.check_cultural_sensitivity: the list of warnings;
\* a warning is <<kind, term>>.  The first component of the result of the
\* source, len(warnings) == 0, is recomputed where it is read.
sensitive_terms(language) ==
  CASE language = "zh" -> <<"taiwan", "tibet", "democracy", "freedom">>
    [] language = "ar" -> <<"alcohol", "pork", "dating">>
    [] language = "hi" -> <<"beef", "caste", "pakistan">>
    [] OTHER -> << >>

check_cultural_sensitivity(text, language) ==
  LET taboo_topics == get_cultural_context(language).taboo_topics
      text_lower == Lower(text)
      terms == sensitive_terms(language)
      topicHits ==
        SelectSeq(taboo_topics,
                  LAMBDA topic : Contains(text_lower, Lower(topic)))
      termHits ==
        SelectSeq(terms, LAMBDA term : Contains(text_lower, <<term>>))
  IN [k \in 1..Len(topicHits) |-> <<"topic", topicHits[k]>>]
       \o [k \in 1..Len(termHits) |-> <<"term", <<termHits[k]>> >>]

\* CulturalContextService._load_greeting_patterns: the first entry of each
\* list, the one get_appropriate_greeting returns for time_of_day 'general'.
greeting_patterns ==
  [f \in {"formal", "informal"} |->
    [l \in {"en", "es", "fr", "de", "zh", "ja", "ar", "hi", "pt", "ru"} |->
      IF f = "formal"
        THEN CASE l = "en" -> <<"Good", " ", "morning">>
               [] l = "es" -> <<"Buenos", " ", "dias">>
               [] l = "fr" -> <<"Bonjour">>
               [] l = "de" -> <<"Guten", " ", "Morgen">>
               [] l = "zh" -> <<"zh_ninhao">>
               [] l = "ja" -> <<"ja_ohayougozaimasu">>
               [] l = "ar" -> <<"ar_assalamualaikum">>
               [] l = "hi" -> <<"hi_namaste">>
               [] l = "pt" -> <<"Bom", " ", "dia">>
               [] l = "ru" -> <<"ru_zdravstvuyte">>
        ELSE CASE l = "en" -> <<"Hi">>
               [] l = "es" -> <<"Hola">>
               [] l = "fr" -> <<"Salut">>
               [] l = "de" -> <<"Hallo">>
               [] l = "zh" -> <<"zh_nihao">>
               [] l = "ja" -> <<"ja_konnichiwa">>
               [] l = "ar" -> <<"ar_marhaba">>
               [] l = "hi" -> <<"hi_hello">>
               [] l = "pt" -> <<"Oi">>
               [] l = "ru" -> <<"ru_privet">>]]

\* CulturalContextService.get_appropriate_greeting with time_of_day
\* 'general', as generate_ai_response calls it.
get_appropriate_greeting(language, formality) ==
  LET context == get_cultural_context(language) IN
  IF context.formality \in {"very_high", "high"} \/ formality = "formal"
    THEN IF language \in DOMAIN greeting_patterns["formal"]
           THEN greeting_patterns["formal"][language]
           ELSE <<"Hello">>
    ELSE IF language \in DOMAIN greeting_patterns["informal"]
           THEN greeting_patterns["informal"][language]
           ELSE <<"Hi">>

-----------------------------------------------------------------------------
(* Optional values: None is << >> and a value v is <<v>>. *)

None == << >>

Some(v) == <<v>>

\* Python truth of an optional string: neither None nor ''.
Truthy(o) == o # None /\ o[1] # << >>

-----------------------------------------------------------------------------
(* services/translation_service.py and services/multilingual_service.py *)

\* What the Google Translate client returns for a text: the backend is a
\* black box, its output is another text that names the target language.
GoogleOutput(text, target) == <<"Google", ":", target, ":", " ">> \o text

\* What the M2M100 model decodes for a text.
M2M100Output(text, target) == <<"M2M100", ":", target, ":", " ">> \o text

\* TranslationService.translate_text.  client: the Google client was built;
\* outcome: "ok" or "error" (client.translate raises).
google_translate_text(client, text, target_language, source_language, outcome) ==
  IF ~client \/ text = << >>
    THEN None
  ELSE IF source_language = target_language
    THEN Some(text)
  ELSE IF outcome = "ok"
    THEN Some(GoogleOutput(text, target_language))
  ELSE None

\* TranslationService.is_available
google_is_available(client) == client

\* MultilingualService._convert_to_m2m100_code: the codes it maps.
m2m100_mapping ==
  {"en", "es", "fr", "de", "zh", "ja", "ar", "hi", "pt", "ru", "it", "ko",
   "th", "vi", "tr", "pl", "nl", "sv", "da", "no", "fi", "he", "cs", "hu",
   "ro", "bg", "hr", "sk", "sl", "et", "lv", "lt", "uk", "be", "mk", "sr",
   "bs", "sq", "el", "ca", "gl", "eu", "mt", "ga", "cy", "is", "fo", "lb"}

\* MultilingualService.translate_with_m2m100.  model: the model and its
\* tokenizer were loaded; outcome: "ok", "empty" (the model decodes '') or
\* "error" (the model raises).
translate_with_m2m100(model, text, source_lang, target_lang, outcome) ==
  IF ~model
    THEN None
  ELSE IF source_lang \notin m2m100_mapping \/ target_lang \notin m2m100_mapping
    THEN None
  ELSE IF outcome = "ok"
    THEN Some(M2M100Output(text, target_lang))
  ELSE IF outcome = "empty"
    THEN Some(<< >>)
  ELSE None

\* MultilingualService.translate_text with the two translators tried in the
\* opposite order.
translate_text_google_first(model, client, text, target_language, source_language, m2mOutcome, googleOutcome) ==
  LET m2m100_result ==
        translate_with_m2m100(model, text, source_language, target_language,
                              m2mOutcome)
      google_result ==
        google_translate_text(client, text, target_language, source_language,
                              googleOutcome)
  IN
  IF text = << >> \/ target_language = ""
    THEN None
  ELSE IF source_language = target_language
    THEN Some(text)
  ELSE IF google_is_available(client) /\ Truthy(google_result)
    THEN google_result
  ELSE IF source_language # "" /\ model
    THEN IF Truthy(m2m100_result) THEN m2m100_result ELSE None
  ELSE None

\* MultilingualService.translate_text.  source_language is a language code
\* or "" for the None default.
translate_text(model, client, text, target_language, source_language, m2mOutcome, googleOutcome) ==
  LET m2m100_result ==
        translate_with_m2m100(model, text, source_language, target_language,
                              m2mOutcome)
  IN
  IF text = << >> \/ target_language = ""
    THEN None
  ELSE IF source_language = target_language
    THEN Some(text)
  ELSE IF source_language # "" /\ model /\ Truthy(m2m100_result)
    THEN m2m100_result
  ELSE IF google_is_available(client)
    THEN google_translate_text(client, text, target_language, source_language,
                               googleOutcome)
  ELSE None

\* MultilingualService.translate_text: the translators it invokes, in the
\* order of the calls.  translate_with_m2m100 is called when a source
\* language was given and the model is loaded; the Google translator is
\* called when no M2M100 result was returned and the client is available.
translate_text_calls(model, client, text, target_language, source_language, m2mOutcome) ==
  LET m2m100_tried == source_language # "" /\ model
      m2m100_result ==
        translate_with_m2m100(model, text, source_language, target_language,
                              m2mOutcome)
  IN
  IF text = << >> \/ target_language = ""
    THEN << >>
  ELSE IF source_language = target_language
    THEN << >>
  ELSE (IF m2m100_tried THEN <<"translate_with_m2m100">> ELSE << >>)
       \o (IF ~(m2m100_tried /\ Truthy(m2m100_result))
              /\ google_is_available(client)
             THEN <<"google_translate.translate_text">>
             ELSE << >>)

-----------------------------------------------------------------------------
(* services/gemini_service.py *)

NoApiKeyText ==
  <<"Please", " ", "configure", " ", "your", " ", "Gemini", " ", "API", " ",
    "key", " ", "in", " ", "the", " ", "sidebar", ".">>

\* GeminiService.generate_text_response.  client: the Gemini client exists;
\* outcome: [kind |-> "ok", text |-> t] (t may be ''), or
\* [kind |-> "error", text |-> e] where e is str(e) of the exception.
generate_text_response(client, outcome) ==
  IF ~client
    THEN NoApiKeyText
  ELSE IF outcome.kind = "ok"
    THEN IF outcome.text # << >>
           THEN outcome.text
           ELSE <<"I", " ", "couldn", "'", "t", " ", "generate", " ", "a", " ",
                  "response", ".", " ", "Please", " ", "try", " ", "again", ".">>
  ELSE <<"Error", " ", "generating", " ", "response", ":", " ">> \o outcome.text

\* An analyze_image without its fallback text and its except branch: an
\* empty answer is returned as it is and an exception leaves no text.
analyze_image_unguarded(client, outcome) ==
  IF ~client
    THEN NoApiKeyText
  ELSE IF outcome.kind = "ok"
    THEN outcome.text
  ELSE << >>

\* GeminiService.analyze_image
analyze_image(client, outcome) ==
  IF ~client
    THEN NoApiKeyText
  ELSE IF outcome.kind = "ok"
    THEN IF outcome.text # << >>
           THEN outcome.text
           ELSE <<"I", " ", "couldn", "'", "t", " ", "analyze", " ", "the", " ",
                  "image", ".", " ", "Please", " ", "try", " ", "again", ".">>
  ELSE <<"Error", " ", "analyzing", " ", "image", ":", " ">> \o outcome.text

\* GeminiService.generate_image: the image bytes (here the flag "there are
\* bytes") or None.  outcome.kind "ok" with text '' stands for a response
\* that holds no image part.
generate_image(client, outcome) ==
  IF ~client
    THEN FALSE
  ELSE outcome.kind = "ok" /\ outcome.text # << >>

-----------------------------------------------------------------------------
(* services/language_detection_service.py *)

\* The reliability weights of detect_language, in 1/100.
weights == [langdetect |-> 100, fasttext |-> 80, transformer |-> 90]

\* The text is too short to classify below this many characters.
MinDetectLen == 3

\* The results list of detect_language: one (method, lang, conf) for each
\* detector that produced an output, in the order the detectors are tried.
\* outputs[m] is None or Some(<<lang, conf>>), conf in 1/100.
DetectorResults(outputs) ==
  LET one(m) == IF outputs[m] = None
                  THEN << >>
                  ELSE << <<m, outputs[m][1][1], outputs[m][1][2]>> >>
  IN one("langdetect") \o one("fasttext") \o one("transformer")

\* The loop of detect_language with 'weighted_score >= best_score': the
\* last of equal scores wins.
RECURSIVE BestOfLastWins(_, _)
BestOfLastWins(results, n) ==
  IF n = 0
    THEN [lang |-> "en", score |-> 0]
    ELSE LET prev == BestOfLastWins(results, n - 1)
             weighted_score == results[n][3] * weights[results[n][1]]
         IN IF weighted_score >= prev.score
              THEN [lang |-> results[n][2], score |-> weighted_score]
              ELSE prev

\* The loop of detect_language over results[1..n]: (best_lang, best_score).
RECURSIVE BestOf(_, _)
BestOf(results, n) ==
  IF n = 0
    THEN [lang |-> "en", score |-> 0]
    ELSE LET prev == BestOf(results, n - 1)
             weighted_score == results[n][3] * weights[results[n][1]]
         IN IF weighted_score > prev.score
              THEN [lang |-> results[n][2], score |-> weighted_score]
              ELSE prev

\* detect_language without the early return for short text.
detect_language_always_detects(text, outputs) ==
  LET results == DetectorResults(outputs)
      best == BestOf(results, Len(results))
  IN
  IF results # << >>
    THEN [lang |-> best.lang,
          conf |-> IF best.score < 10000 THEN best.score ELSE 10000]
  ELSE [lang |-> "en", conf |-> 3000]

\* detect_language returning best_score as it is, without min(.., 1.0).
detect_language_unclamped(text, outputs) ==
  LET results == DetectorResults(outputs)
      best == BestOf(results, Len(results))
  IN
  IF text = << >> \/ CharLen(Strip(text)) < MinDetectLen
    THEN [lang |-> "en", conf |-> 5000]
  ELSE IF results # << >>
    THEN [lang |-> best.lang, conf |-> best.score]
  ELSE [lang |-> "en", conf |-> 3000]

\* LanguageDetectionService.detect_language: (language, confidence), the
\* confidence in 1/10000.
detect_language(text, outputs) ==
  LET results == DetectorResults(outputs)
      best == BestOf(results, Len(results))
  IN
  IF text = << >> \/ CharLen(Strip(text)) < MinDetectLen
    THEN [lang |-> "en", conf |-> 5000]
  ELSE IF results # << >>
    THEN [lang |-> best.lang,
          conf |-> IF best.score < 10000 THEN best.score ELSE 10000]
  ELSE [lang |-> "en", conf |-> 3000]

-----------------------------------------------------------------------------
(* services/chat_sharing.py *)

\* The clock counts ticks; timedelta(hours=1) is this many ticks.
TicksPerHour == 2

\* timedelta(hours=expiry_hours), in ticks.
timedelta(expiry_hours) == expiry_hours * TicksPerHour

\* clean_message that copies the whole message and adds the flag.
clean_message_keeps_all(message) ==
  [k \in DOMAIN message \cup {"has_image"} |->
     IF k = "has_image" THEN TRUE ELSE message[k]]

\* create_share_link, the body of the loop: the stored form of a message.
\* message.image says that the message holds image bytes.
clean_message(message) ==
  LET base == [role |-> message.role,
               timestamp |-> IF "timestamp" \in DOMAIN message
                               THEN message.timestamp ELSE "",
               text |-> IF "text" \in DOMAIN message
                          THEN message.text ELSE << >>]
  IN IF "image" \in DOMAIN message /\ message.image
       THEN [k \in DOMAIN base \cup {"has_image"} |->
               IF k = "has_image" THEN TRUE ELSE base[k]]
       ELSE base

\* create_share_link, lines 26-38
shareable_messages(msgs) == [i \in 1..Len(msgs) |-> clean_message(msgs[i])]

\* create_share_link, lines 41-47: the record stored under the token.
\* now1 is datetime.now() of line 23 and now2 datetime.now() of line 44.
share_record(chat_id, msgs, expiry_hours, now1, now2) ==
  [chat_id |-> chat_id,
   messages |-> shareable_messages(msgs),
   created_at |-> now2,
   expires_at |-> now1 + timedelta(expiry_hours),
   view_count |-> 0]

\* The store without a token: del self.shared_chats[share_token]
del(store, share_token) ==
  [t \in DOMAIN store \ {share_token} |-> store[t]]

\* get_shared_chat that returns a record whatever its expiry time.
get_shared_chat_ignores_expiry(store, share_token, current_time) ==
  IF share_token \notin DOMAIN store
    THEN [store |-> store, value |-> None]
  ELSE LET counted == [store EXCEPT ![share_token].view_count = @ + 1]
       IN [store |-> counted, value |-> Some(counted[share_token])]

\* get_shared_chat that returns a record without counting the view.
get_shared_chat_no_count(store, share_token, current_time) ==
  IF share_token \notin DOMAIN store
    THEN [store |-> store, value |-> None]
  ELSE IF current_time > store[share_token].expires_at
    THEN [store |-> del(store, share_token), value |-> None]
  ELSE [store |-> store, value |-> Some(store[share_token])]

\* ChatSharing.get_shared_chat run by one request on its own: the store it
\* leaves and the value it returns, None or the record (the stored dict
\* itself, so with the view counted).
get_shared_chat(store, share_token, current_time) ==
  IF share_token \notin DOMAIN store
    THEN [store |-> store, value |-> None]
  ELSE IF current_time > store[share_token].expires_at
    THEN [store |-> del(store, share_token), value |-> None]
  ELSE LET counted == [store EXCEPT ![share_token].view_count = @ + 1]
       IN [store |-> counted, value |-> Some(counted[share_token])]

\* ChatSharing.cleanup_expired_chats, lines 84-87: the expired tokens.
expired_tokens(store, current_time) ==
  {t \in DOMAIN store : current_time > store[t].expires_at}

\* ChatSharing.get_share_stats
get_share_stats(store, share_token) ==
  IF share_token \notin DOMAIN store
    THEN None
    ELSE Some([chat_id |-> store[share_token].chat_id,
               created_at |-> store[share_token].created_at,
               expires_at |-> store[share_token].expires_at,
               view_count |-> store[share_token].view_count,
               message_count |-> Len(store[share_token].messages)])

-----------------------------------------------------------------------------
(* utils/session_manager.py *)

\* sorted(xs, key=lambda x: x[1], reverse=True): a stable sort by descending
\* confidence, as an insertion sort.
RECURSIVE InsertDesc(_, _)
InsertDesc(sorted, x) ==
  IF sorted = << >>
    THEN <<x>>
  ELSE IF Head(sorted)[2] >= x[2]
    THEN <<Head(sorted)>> \o InsertDesc(Tail(sorted), x)
  ELSE <<x>> \o sorted

RECURSIVE SortDesc(_)
SortDesc(xs) ==
  IF xs = << >>
    THEN << >>
    ELSE InsertDesc(SortDesc(SubSeq(xs, 1, Len(xs) - 1)), xs[Len(xs)])

\* The number of detected languages the session keeps.
MaxDetectedLanguages == 5

\* SessionManager.add_detected_language: the new detected_languages list.
add_detected_language(list, lang, confidence) ==
  IF \E i \in 1..Len(list) : list[i][1] = lang
    THEN LET i == CHOOSE j \in 1..Len(list) :
                    /\ list[j][1] = lang
                    /\ \A k \in 1..(j - 1) : list[k][1] # lang
         IN [list EXCEPT ![i] = <<lang, confidence>>]
    ELSE LET all == SortDesc(Append(list, <<lang, confidence>>))
         IN SubSeq(all, 1, IF Len(all) < MaxDetectedLanguages
                             THEN Len(all) ELSE MaxDetectedLanguages)

-----------------------------------------------------------------------------
(* Inputs of the model *)

\* The user texts of the model.
T_weapon ==
  <<"How", " ", "do", " ", "I", " ", "make", " ", "a", " ", "weapon", "?">>

T_hate == <<"I", " ", "hate", " ", "this">>

T_bonjour ==
  <<"Bonjour", ",", " ", "comment", " ", "allez", "-", "vous", "?">>

T_image == <<"Generate", " ", "an", " ", "image", " ", "of", " ", "a", " ", "cat">>

UserTexts == {<< >>, T_weapon, T_hate, T_bonjour, T_image}

\* A response of the generative backend, 61 characters long.
R_long ==
  <<"The", " ", "capital", " ", "of", " ", "France", " ", "is", " ", "Paris",
    ",", " ", "a", " ", "city", " ", "known", " ", "for", " ", "its", " ",
    "museums", ".">>

\* A short response of the generative backend: the letters of the English
\* greeting 'Hi' occur inside its word 'think'.
R_think == <<"I", " ", "think", " ", "it", " ", "is", " ", "Paris", ".">>

\* str(e) of an exception of the generative backend.
RawError == <<"503", " ", "UNAVAILABLE">>

BackendOutcomes ==
  {[kind |-> "ok", text |-> R_long], [kind |-> "ok", text |-> R_think],
   [kind |-> "ok", text |-> << >>], [kind |-> "error", text |-> RawError]}

Modes == {"Mixed", "Text Only", "Image Analysis", "Image Generation"}

\* The languages the user selects.
Languages == {"en", "fr", "zh"}

\* The output of one detector: none (the detector is not installed, found
\* nothing or raised), or a language with a raw confidence in 1/100.
DetectorOutputs ==
  {None, Some(<<"en", 95>>), Some(<<"fr", 70>>), Some(<<"fr", 95>>)}

\* A turn starts only while the conversation holds fewer messages than this.
MaxMessages == 1

-----------------------------------------------------------------------------
(* app.py: the session state, the services and one user turn *)

VARIABLES
  messages,               \* st.session_state.messages
  ss_language,            \* st.session_state.language
  language_confidence,    \* st.session_state.language_confidence, 1/10000
  language_auto_detected, \* st.session_state.language_auto_detected
  detected_languages,     \* st.session_state.detected_languages
  auto_translate,         \* st.session_state.auto_translate
  gemini_client,          \* GeminiService.client is not None
  m2m100_model,           \* MultilingualService.m2m100_model is loaded
  google_client,          \* TranslationService.client is not None
  pc,                     \* the place of the turn in process_user_input
  text_input,             \* user_message["text"]
  image_input,            \* the turn has an uploaded image
  mode,                   \* the chat mode of the turn
  selected_language,      \* the language main() passes to the turn
  language,               \* the working language of process_user_input
  detected_language,      \* detected_language of process_user_input
  detection_confidence,   \* detection_confidence of process_user_input
  filter_reason,          \* the reason the filter blocked the turn, or ""
  cultural_warnings,      \* cultural_warnings of process_user_input
  context_messages,       \* context["messages"]
  cultural_context,       \* context["cultural_context"]
  response,               \* the response generate_ai_response builds
  adapted_text,           \* response["text"] as the cultural adjustments
                          \* leave it
  translated_by,          \* who translated the response: "" (nothing was
                          \* asked), "m2m100", "google" or "nobody"
  calls,                  \* the service calls of the turn, in order
  unit_call,              \* a service method called on its own: its inputs
  unit_results            \* what the method returned, call after call

VARIABLES
  shared_chats,           \* ChatSharing.shared_chats: token -> record
  now,                    \* datetime.now(), in ticks
  tokens_issued,          \* the number of tokens uuid4 has produced
  share_result,           \* the last call of a ChatSharing method run by
                          \* one request on its own: its arguments, the
                          \* time it read (0 when it reads none) and what
                          \* it returned
  retrievals,             \* token -> the number of get_shared_chat calls
                          \* that returned its record
  threads                 \* the requests running ChatSharing methods
                          \* concurrently: each one's place and locals

session == <<ss_language, language_confidence, language_auto_detected,
             detected_languages, auto_translate>>

services == <<gemini_client, m2m100_model, google_client>>

locals == <<text_input, image_input, mode, selected_language, language,
            detected_language, detection_confidence, filter_reason,
            cultural_warnings, context_messages, cultural_context, response,
            adapted_text, translated_by, calls>>

unit == <<unit_call, unit_results>>

share == <<shared_chats, now, tokens_issued, share_result, retrievals,
           threads>>

vars == <<messages, session, services, pc, locals, unit, share>>

NoResponse ==
  [role |-> "assistant", text |-> << >>, image |-> FALSE, language |-> "en",
   cultural_context_applied |-> FALSE]

\* initialize_session_state, SessionManager.initialize_session_state and
\* initialize_services: an empty conversation in English; each service has
\* its client or model, or not.
initialize_session_state ==
  /\ messages = << >>
  /\ ss_language = "en"
  /\ language_confidence = 10000
  /\ language_auto_detected = FALSE
  /\ detected_languages = << >>
  /\ auto_translate = TRUE
  /\ gemini_client \in BOOLEAN
  /\ m2m100_model \in BOOLEAN
  /\ google_client \in BOOLEAN
  /\ pc = "idle"
  /\ text_input = << >>
  /\ image_input = FALSE
  /\ mode = "Mixed"
  /\ selected_language = "en"
  /\ language = "en"
  /\ detected_language = "en"
  /\ detection_confidence = 10000
  /\ filter_reason = ""
  /\ cultural_warnings = << >>
  /\ context_messages = << >>
  /\ cultural_context = get_cultural_context("en")
  /\ response = NoResponse
  /\ adapted_text = << >>
  /\ translated_by = ""
  /\ calls = << >>

\* The requests that run ChatSharing methods concurrently.
Threads == {"r1", "r2"}

\* A request that runs no method.
IdleThread ==
  [pc |-> "idle", share_token |-> 0, shared_data |-> None,
   current_time |-> 0, di_used |-> 0, expired_tokens |-> {}, failed |-> ""]

\* No ChatSharing method has been called.
NoShareCall ==
  [op |-> "", share_token |-> 0, value |-> None, current_time |-> 0,
   messages |-> << >>, expiry_hours |-> 0]

\* ChatSharing.__init__, as initialize_services constructs the one
\* ChatSharing of the process: an empty store.
ChatSharing_init ==
  /\ shared_chats = << >>
  /\ now = 0
  /\ tokens_issued = 0
  /\ share_result = NoShareCall
  /\ retrievals = << >>
  /\ threads = [r \in Threads |-> IdleThread]

\* No service method is called on its own.
NoCall == [method |-> "", text |-> << >>, language |-> "", source |-> ""]

Init ==
  /\ initialize_session_state
  /\ ChatSharing_init
  /\ unit_call = NoCall
  /\ unit_results = << >>

\* main: one run of the script with an input.  The sidebar takes the API
\* key, the mode, the selected language and the auto-detect box, and
\* process_user_input is called with the text and the uploaded image.  The
\* uploader is shown in the modes Mixed and Image Analysis only.
RunScript(api_key, m, sel, auto_detect, text, image) ==
  /\ pc \in {"idle", "done"}
  /\ text # << >> \/ image
  /\ image => m \in {"Mixed", "Image Analysis"}
  /\ gemini_client' = (api_key \/ gemini_client)
  /\ IF sel # ss_language
       THEN /\ ss_language' = sel
            /\ language_confidence' = 10000
            /\ language_auto_detected' = FALSE
       ELSE UNCHANGED <<ss_language, language_confidence,
                        language_auto_detected>>
  /\ auto_translate' = auto_detect
  /\ text_input' = text
  /\ image_input' = image
  /\ mode' = m
  /\ selected_language' = sel
  /\ language' = sel
  /\ detected_language' = sel
  /\ detection_confidence' = 10000
  /\ filter_reason' = ""
  /\ cultural_warnings' = << >>
  /\ context_messages' = << >>
  /\ cultural_context' = get_cultural_context(sel)
  /\ response' = NoResponse
  /\ adapted_text' = << >>
  /\ translated_by' = ""
  /\ calls' = << >>
  /\ pc' = "detect"
  /\ UNCHANGED <<messages, detected_languages, m2m100_model, google_client,
                 unit, share>>

\* A run of the script in a conversation that is still short.
Main(api_key, m, sel, auto_detect, text, image) ==
  /\ Len(messages) < MaxMessages
  /\ RunScript(api_key, m, sel, auto_detect, text, image)

\* The confidence a detection must exceed to switch the language, 1/10000.
SwitchThreshold == 7000

\* The switch at a confidence of 0.7 as well.
ShouldSwitchAtThreshold(confidence, detected, current) ==
  confidence >= SwitchThreshold /\ detected # current

\* "Update session if confidence is high enough and language is different"
ShouldSwitch(confidence, detected, current) ==
  confidence > SwitchThreshold /\ detected # current

\* process_user_input, "Language detection and switching".
DetectLanguage(outputs) ==
  /\ pc = "detect"
  /\ pc' = "add_user"
  /\ IF text_input # << >> /\ auto_translate
       THEN LET d == detect_language(text_input, outputs) IN
            /\ detected_language' = d.lang
            /\ detection_confidence' = d.conf
            /\ calls' = Append(calls, "detect_language")
            /\ IF ShouldSwitch(d.conf, d.lang, language)
                 THEN /\ ss_language' = d.lang
                      /\ language_confidence' = d.conf
                      /\ language_auto_detected' = TRUE
                      /\ detected_languages' =
                           add_detected_language(detected_languages, d.lang,
                                                 d.conf)
                      /\ language' = d.lang
                 ELSE UNCHANGED <<ss_language, language_confidence,
                                  language_auto_detected, detected_languages,
                                  language>>
       ELSE UNCHANGED <<session, language, detected_language,
                        detection_confidence, calls>>
  /\ UNCHANGED <<share, unit, messages, auto_translate, services, text_input,
                 image_input, mode, selected_language, filter_reason, cultural_warnings,
                 context_messages, cultural_context, response, adapted_text,
                 translated_by>>

\* process_user_input, "Add user message to chat".  The detection fields of
\* the message, which nothing reads, are left out; the uploaded image is
\* taken to be one that PIL saves as PNG.
AddUserMessage ==
  /\ pc = "add_user"
  /\ pc' = "filter"
  /\ messages' =
       IF text_input # << >> \/ image_input
         THEN Append(messages, [role |-> "user", text |-> text_input,
                                image |-> image_input])
         ELSE messages
  /\ UNCHANGED <<session, services, locals, unit, share>>

\* A content filtering that reports an unsafe text and goes on.
ContentFilteringNoHalt ==
  /\ pc = "filter"
  /\ IF text_input = << >>
       THEN /\ pc' = "generate"
            /\ UNCHANGED <<filter_reason, calls>>
       ELSE LET r == is_content_safe(text_input) IN
            /\ calls' = Append(calls, "is_content_safe")
            /\ pc' = "sensitivity"
            /\ filter_reason' = IF r.safe THEN filter_reason ELSE r.reason
  /\ UNCHANGED <<share, unit, messages, session, services, text_input, image_input,
                 mode, selected_language, language, detected_language,
                 detection_confidence, cultural_warnings, context_messages,
                 cultural_context, response, adapted_text, translated_by>>

\* process_user_input, "Content filtering": an unsafe text ends the turn.
ContentFiltering ==
  /\ pc = "filter"
  /\ IF text_input = << >>
       THEN /\ pc' = "generate"
            /\ UNCHANGED <<filter_reason, calls>>
       ELSE LET r == is_content_safe(text_input) IN
            /\ calls' = Append(calls, "is_content_safe")
            /\ IF r.safe
                 THEN pc' = "sensitivity" /\ UNCHANGED filter_reason
                 ELSE pc' = "done" /\ filter_reason' = r.reason
  /\ UNCHANGED <<share, unit, messages, session, services, text_input, image_input,
                 mode, selected_language, language, detected_language,
                 detection_confidence, cultural_warnings, context_messages,
                 cultural_context, response, adapted_text, translated_by>>

\* A sensitivity check that ends the turn when it has a warning.
CulturalSensitivityCheckBlocking ==
  /\ pc = "sensitivity"
  /\ cultural_warnings' = check_cultural_sensitivity(text_input, language)
  /\ pc' = IF cultural_warnings' = << >> THEN "generate" ELSE "done"
  /\ calls' = Append(calls, "check_cultural_sensitivity")
  /\ UNCHANGED <<share, unit, messages, session, services, text_input, image_input,
                 mode, selected_language, language, detected_language,
                 detection_confidence, filter_reason, context_messages,
                 cultural_context, response, adapted_text, translated_by>>

\* process_user_input, "Cultural sensitivity check": the warnings are shown
\* and the turn goes on.
CulturalSensitivityCheck ==
  /\ pc = "sensitivity"
  /\ pc' = "generate"
  /\ cultural_warnings' = check_cultural_sensitivity(text_input, language)
  /\ calls' = Append(calls, "check_cultural_sensitivity")
  /\ UNCHANGED <<share, unit, messages, session, services, text_input, image_input,
                 mode, selected_language, language, detected_language,
                 detection_confidence, filter_reason, context_messages,
                 cultural_context, response, adapted_text, translated_by>>

\* The number of messages process_user_input hands on as context.
ContextWindow == 10

\* messages[-10:]
LastMessages(ms) ==
  IF Len(ms) <= ContextWindow
    THEN ms
    ELSE SubSeq(ms, Len(ms) - ContextWindow + 1, Len(ms))

\* The texts generate_ai_response words itself.
ImageCaptionFormal(text) ==
  <<"I", " ", "have", " ", "respectfully", " ", "created", " ", "an", " ",
    "image", " ", "based", " ", "on", " ", "your", " ", "request", ":", " ",
    "'">> \o text \o <<"'">>

ImageCaptionPlain(text) ==
  <<"I", "'", "ve", " ", "generated", " ", "an", " ", "image", " ", "based",
    " ", "on", " ", "your", " ", "prompt", ":", " ", "'">> \o text \o <<"'">>

NoImageText ==
  <<"I", " ", "couldn", "'", "t", " ", "generate", " ", "an", " ", "image",
    " ", "for", " ", "that", " ", "prompt", ".", " ", "Please", " ", "try",
    " ", "a", " ", "different", " ", "description", ".">>

AskImageFormal ==
  <<"I", " ", "would", " ", "be", " ", "pleased", " ", "to", " ", "analyze",
    " ", "an", " ", "image", " ", "if", " ", "you", " ", "could", " ",
    "kindly", " ", "provide", " ", "one", ".">>

AskImagePlain ==
  <<"Please", " ", "upload", " ", "an", " ", "image", " ", "for", " ",
    "analysis", ".">>

\* generate_ai_response with image generation chosen by the mode alone.
GenerateResponseByModeOnly(outcome) ==
  LET profile == get_cultural_context(language)
      formal == profile.formality \in {"very_high", "high"}
      text_lower == Lower(text_input)
      base == [NoResponse EXCEPT !.language = language]
  IN
  /\ pc = "generate"
  /\ pc' = "adjust"
  /\ context_messages' = LastMessages(messages)
  /\ cultural_context' = profile
  /\ IF mode = "Image Generation"
       THEN IF text_input # << >>
              THEN /\ calls' = Append(calls, "generate_image")
                   /\ IF generate_image(gemini_client, outcome)
                        THEN response' =
                               [base EXCEPT
                                  !.image = TRUE,
                                  !.text = IF formal
                                             THEN ImageCaptionFormal(text_input)
                                             ELSE ImageCaptionPlain(text_input)]
                        ELSE response' = [base EXCEPT !.text = NoImageText]
              ELSE response' = base /\ UNCHANGED calls
     ELSE IF mode = "Image Analysis" \/ (image_input /\ mode = "Mixed")
       THEN IF image_input
              THEN /\ calls' = Append(calls, "analyze_image")
                   /\ response' =
                        [base EXCEPT
                           !.text = analyze_image(gemini_client, outcome)]
              ELSE /\ response' =
                        [base EXCEPT !.text = IF formal THEN AskImageFormal
                                                        ELSE AskImagePlain]
                   /\ UNCHANGED calls
     ELSE /\ calls' = Append(calls, "generate_text_response")
          /\ response' =
               [base EXCEPT
                  !.text = generate_text_response(gemini_client, outcome)]
  /\ UNCHANGED <<share, unit, messages, session, services, text_input, image_input,
                 mode, selected_language, language, detected_language,
                 detection_confidence, filter_reason, cultural_warnings,
                 adapted_text, translated_by>>

\* process_user_input, "Prepare enhanced context", and generate_ai_response,
\* "Handle different modes": one call of the generative backend, chosen by
\* the mode.  Every method of GeminiService catches what its client raises,
\* so the except branch of generate_ai_response is never entered from here.
GenerateResponse(outcome) ==
  LET profile == get_cultural_context(language)
      formal == profile.formality \in {"very_high", "high"}
      text_lower == Lower(text_input)
      base == [NoResponse EXCEPT !.language = language]
  IN
  /\ pc = "generate"
  /\ pc' = "adjust"
  /\ context_messages' = LastMessages(messages)
  /\ cultural_context' = profile
  /\ IF \/ mode = "Image Generation"
        \/ /\ mode = "Mixed"
           /\ Contains(text_lower, <<"generate">>)
           /\ Contains(text_lower, <<"image">>)
       THEN IF text_input # << >>
              THEN /\ calls' = Append(calls, "generate_image")
                   /\ IF generate_image(gemini_client, outcome)
                        THEN response' =
                               [base EXCEPT
                                  !.image = TRUE,
                                  !.text = IF formal
                                             THEN ImageCaptionFormal(text_input)
                                             ELSE ImageCaptionPlain(text_input)]
                        ELSE response' = [base EXCEPT !.text = NoImageText]
              ELSE response' = base /\ UNCHANGED calls
     ELSE IF mode = "Image Analysis" \/ (image_input /\ mode = "Mixed")
       THEN IF image_input
              THEN /\ calls' = Append(calls, "analyze_image")
                   /\ response' =
                        [base EXCEPT
                           !.text = analyze_image(gemini_client, outcome)]
              ELSE /\ response' =
                        [base EXCEPT !.text = IF formal THEN AskImageFormal
                                                        ELSE AskImagePlain]
                   /\ UNCHANGED calls
     ELSE /\ calls' = Append(calls, "generate_text_response")
          /\ response' =
               [base EXCEPT
                  !.text = generate_text_response(gemini_client, outcome)]
  /\ UNCHANGED <<share, unit, messages, session, services, text_input, image_input,
                 mode, selected_language, language, detected_language,
                 detection_confidence, filter_reason, cultural_warnings,
                 adapted_text, translated_by>>

\* SessionManager.get_multilingual_settings()['enabled']: main sets it to
\* True on every run.
multilingual_enabled == TRUE

\* generate_ai_response, "Apply cultural adjustments to response", with the
\* flag set whenever the adaptation ran.
apply_cultural_adjustments_flags_every_run(enabled, context, resp, lang) ==
  IF enabled /\ DOMAIN context # {} /\ resp.text # << >>
    THEN [resp EXCEPT !.text = adjust_response_style(resp.text, lang),
                      !.cultural_context_applied = TRUE]
    ELSE resp

\* generate_ai_response, "Apply cultural adjustments to response": the
\* response after the step.  enabled: multilingual_enabled; context: the
\* cultural profile of the turn.
apply_cultural_adjustments(enabled, context, resp, lang) ==
  IF enabled /\ DOMAIN context # {} /\ resp.text # << >>
    THEN LET adjusted_response == adjust_response_style(resp.text, lang)
         IN IF adjusted_response # resp.text
              THEN [resp EXCEPT !.text = adjusted_response,
                                !.cultural_context_applied = TRUE]
              ELSE resp
    ELSE resp

\* generate_ai_response, "Apply cultural adjustments to response".
ApplyCulturalAdjustments ==
  /\ pc = "adjust"
  /\ pc' = "translate"
  /\ response' = apply_cultural_adjustments(multilingual_enabled,
                                            cultural_context, response,
                                            language)
  /\ calls' = IF multilingual_enabled /\ response.text # << >>
                THEN Append(calls, "adjust_response_style")
                ELSE calls
  /\ adapted_text' = response'.text
  /\ UNCHANGED <<share, unit, messages, session, services, text_input, image_input,
                 mode, selected_language, language, detected_language,
                 detection_confidence, filter_reason, cultural_warnings,
                 context_messages, cultural_context, translated_by>>

\* The translator a translation came from, read off its text.
Translator(o) ==
  IF ~Truthy(o) THEN "nobody"
  ELSE IF o[1][1] = "M2M100" THEN "m2m100"
  ELSE "google"

\* A translation step that keeps nothing when no translator translated.
translated_or_nothing(text, translated_text) ==
  IF Truthy(translated_text) THEN translated_text[1] ELSE << >>

\* generate_ai_response, "if translated_text: response['text'] =
\* translated_text": the text of the response after the translation step.
apply_translation(text, translated_text) ==
  IF Truthy(translated_text) THEN translated_text[1] ELSE text

\* generate_ai_response, "Enhanced translation with M2M100 if available".
\* The outcomes are those of the M2M100 model, of the Google client inside
\* MultilingualService and of the Google client of the application.
TranslateResponse(m2mOutcome, googleOutcome, appOutcome) ==
  /\ pc = "translate"
  /\ pc' = "greeting"
  /\ IF language # "en" /\ response.text # << >>
       THEN LET first == translate_text(m2m100_model, google_client,
                                        response.text, language, "en",
                                        m2mOutcome, googleOutcome)
                translated_text ==
                  IF ~Truthy(first) /\ google_is_available(google_client)
                    THEN google_translate_text(google_client, response.text,
                                               language, "en", appOutcome)
                    ELSE first
            IN /\ calls' = Append(calls, "translate_text")
               /\ translated_by' = Translator(translated_text)
               /\ response' =
                    [response EXCEPT
                       !.text = apply_translation(response.text,
                                                  translated_text)]
       ELSE UNCHANGED <<response, translated_by, calls>>
  /\ UNCHANGED <<share, unit, messages, session, services, text_input, image_input,
                 mode, selected_language, language, detected_language,
                 detection_confidence, filter_reason, cultural_warnings,
                 context_messages, cultural_context, adapted_text>>

\* The length of the head of the response the greeting is looked up in.
GreetingWindow == 50

\* s[:n]: the atoms that lie within the first n characters.  An atom the
\* cut falls in is left out: no greeting of the model occurs in a piece of
\* an atom of its texts.
RECURSIVE TakeChars(_, _)
TakeChars(s, n) ==
  IF s = << >> \/ AtomLen(Head(s)) > n
    THEN << >>
    ELSE <<Head(s)>> \o TakeChars(Tail(s), n - AtomLen(Head(s)))

\* The greeting step with every turn before the first reply taken as the
\* first one.
AddGreetingUntilFirstReply ==
  LET greeting == get_appropriate_greeting(language, "moderate") IN
  /\ pc = "greeting"
  /\ pc' = "append"
  /\ response' =
       IF /\ \A i \in 1..Len(context_messages) :
               context_messages[i].role # "assistant"
          /\ ~image_input
          /\ greeting # << >>
          /\ ~Contains(TakeChars(Lower(response.text), GreetingWindow),
                       Lower(greeting))
         THEN [response EXCEPT !.text = greeting \o <<"!", " ">> \o response.text]
         ELSE response
  /\ UNCHANGED <<share, unit, messages, session, services, text_input, image_input,
                 mode, selected_language, language, detected_language,
                 detection_confidence, filter_reason, cultural_warnings,
                 context_messages, cultural_context, adapted_text,
                 translated_by, calls>>

\* generate_ai_response, "Add greeting if this is the first message".
AddGreeting ==
  LET greeting == get_appropriate_greeting(language, "moderate") IN
  /\ pc = "greeting"
  /\ pc' = "append"
  /\ response' =
       IF /\ Len(context_messages) <= 1
          /\ ~image_input
          /\ greeting # << >>
          /\ ~Contains(TakeChars(Lower(response.text), GreetingWindow),
                       Lower(greeting))
         THEN [response EXCEPT !.text = greeting \o <<"!", " ">> \o response.text]
         ELSE response
  /\ UNCHANGED <<share, unit, messages, session, services, text_input, image_input,
                 mode, selected_language, language, detected_language,
                 detection_confidence, filter_reason, cultural_warnings,
                 context_messages, cultural_context, adapted_text,
                 translated_by, calls>>

\* str(e) of an exception of the display.
DisplayError == <<"StreamlitAPIException">>

\* The message the except branch of process_user_input appends.
error_response(e) ==
  [role |-> "assistant",
   text |-> <<"I", " ", "apologize", ",", " ", "but", " ", "I", " ",
              "encountered", " ", "an", " ", "error", ":", " ">> \o e \o
            <<".", " ", "Please", " ", "try", " ", "again", ".">>,
   image |-> FALSE]

\* process_user_input, "Add response to chat", "Display response" and the
\* sentiment caption: the response is appended; then the display succeeds,
\* or it raises and the except branch appends its message.
AddResponse(ok) ==
  /\ pc = "append"
  /\ pc' = "done"
  /\ messages' = IF ok THEN Append(messages, response)
                       ELSE Append(messages, response)
                              \o <<error_response(DisplayError)>>
  /\ UNCHANGED <<session, services, locals, unit, share>>

Next ==
  \/ \E api_key \in BOOLEAN, m \in Modes, sel \in Languages,
        auto_detect \in BOOLEAN, text \in UserTexts, image \in BOOLEAN :
       Main(api_key, m, sel, auto_detect, text, image)
  \/ \E o \in DetectorOutputs :
       DetectLanguage([langdetect |-> o, fasttext |-> None,
                       transformer |-> None])
  \/ AddUserMessage
  \/ ContentFiltering
  \/ CulturalSensitivityCheck
  \/ \E outcome \in BackendOutcomes : GenerateResponse(outcome)
  \/ ApplyCulturalAdjustments
  \/ \E m2mOutcome \in {"ok", "error"},
        googleOutcome \in {"ok", "error"}, appOutcome \in {"ok", "error"} :
       TranslateResponse(m2mOutcome, googleOutcome, appOutcome)
  \/ AddGreeting
  \/ \E ok \in BOOLEAN : AddResponse(ok)

Spec == Init /\ [][Next]_vars

\* A conversation of text turns goes on while it holds fewer messages than
\* this.
MaxConversation == 2

\* main, run again in the same session: text turns in the mode Text Only
\* with the API key set and the auto-detect box off.
NextTurn(sel, text) ==
  /\ Len(messages) < MaxConversation
  /\ RunScript(TRUE, "Text Only", sel, FALSE, text, FALSE)

ConversationNext ==
  \/ \E sel \in {"en", "fr"}, text \in {T_hate, T_bonjour} :
       NextTurn(sel, text)
  \/ DetectLanguage([langdetect |-> None, fasttext |-> None,
                     transformer |-> None])
  \/ AddUserMessage
  \/ ContentFiltering
  \/ CulturalSensitivityCheck
  \/ \E outcome \in BackendOutcomes : GenerateResponse(outcome)
  \/ ApplyCulturalAdjustments
  \/ \E m2mOutcome \in {"ok", "error"},
        googleOutcome \in {"ok", "error"}, appOutcome \in {"ok", "error"} :
       TranslateResponse(m2mOutcome, googleOutcome, appOutcome)
  \/ AddGreeting
  \/ \E ok \in BOOLEAN : AddResponse(ok)

ConversationSpec == Init /\ [][ConversationNext]_vars

-----------------------------------------------------------------------------
(* Service methods called on their own *)

\* The texts handed to a method called on its own.
UnitTexts == {<< >>, T_bonjour, R_long, SubSeq(R_long, 1, 20)}

\* The language codes a profile is asked for: those of the profile table,
\* two codes it does not hold, and the empty code.
ProfileCodes == DOMAIN cultural_data \cup {"it", "ko", ""}

\* The texts handed to detect_language: the empty text, a blank, two
\* characters, two characters between blanks, three characters, a sentence.
DetectTexts ==
  {<< >>, <<" ">>, <<"Hi">>, <<" ", "Hi", " ">>, <<"Hi", "!">>, T_bonjour}

\* What one detector answers for a text: nothing (it is not installed, it
\* raised, or it returned an empty list), or a language with a score in
\* 1/100; 130 is a score above 1, and 72, 80 and 90 give the three
\* detectors the same weighted score.
UnitDetectorOutputs ==
  DetectorOutputs \cup {Some(<<"en", 0>>), Some(<<"fr", 130>>),
                        Some(<<"fr", 72>>), Some(<<"fr", 80>>),
                        Some(<<"en", 90>>)}

\* The calls: a translation by either translator, with a source language
\* ("" is the source_language=None default), a style adjustment, a profile
\* lookup, or a language detection.
\* Texts handed to the content filter on its own: one that meets the first
\* and the second rule, one in capitals that meets the second rule only, one
\* that meets the third rule only, one that meets the second and the third,
\* one with a blocked word in capitals, and one where the blocked word is
\* part of a longer word.
F_harm == <<"How", " ", "to", " ", "harm", " ", "someone">>

F_weapons == <<"HOW", " ", "TO", " ", "MAKE", " ", "WEAPONS">>

F_image_weapon ==
  <<"Create", " ", "an", " ", "image", " ", "of", " ", "a", " ", "weapon">>

F_image_weapons ==
  <<"Make", " ", "an", " ", "image", ":", " ", "how", " ", "to", " ", "make",
    " ", "weapons">>

F_HATE == <<"I", " ", "HATE", " ", "this">>

F_hateful == <<"A", " ", "hateful", " ", "cat">>

FilterTexts ==
  {<< >>, <<" ">>, T_weapon, T_hate, T_bonjour, T_image, F_harm, F_weapons,
   F_image_weapon, F_image_weapons, F_HATE, F_hateful}

\* generate_ai_response, "Text conversation with cultural context": the
\* messages of the context that have a text.
conversation_history(context_msgs) ==
  SelectSeq(context_msgs, LAMBDA msg : msg.text # << >>)

\* The number of messages generate_text_response puts into its prompt.
RecentWindow == 5

\* GeminiService.generate_text_response, "Build context from conversation
\* history": the lines under "Previous conversation:", one for each of the
\* recent messages that has a text, as <<role, text>>.
prompt_context(history) ==
  LET recent_messages ==
        IF Len(history) <= RecentWindow
          THEN history
          ELSE SubSeq(history, Len(history) - RecentWindow + 1, Len(history))
      with_text == SelectSeq(recent_messages, LAMBDA msg : msg.text # << >>)
  IN [i \in 1..Len(with_text) |->
        <<IF with_text[i].role = "user" THEN "User" ELSE "Assistant",
          with_text[i].text>>]

\* The longest conversation handed to a text conversation called on its own.
MaxHistory == 12

\* st.session_state.messages of a conversation of n text messages, the
\* user's and the assistant's in turn.
Conversation(n) ==
  [i \in 1..n |->
     [role |-> IF i % 2 = 1 THEN "user" ELSE "assistant",
      text |-> CASE i % 4 = 1 -> T_bonjour
                 [] i % 4 = 2 -> R_long
                 [] i % 4 = 3 -> T_image
                 [] OTHER -> R_think,
      image |-> FALSE]]

UnitCalls ==
  {[method |-> m, text |-> t, language |-> l, source |-> src] :
     m \in {"MultilingualService.translate_text",
            "TranslationService.translate_text"},
     t \in UnitTexts, l \in Languages, src \in Languages \cup {""}}
  \cup
  {[method |-> "adjust_response_style", text |-> t, language |-> l,
    source |-> ""] : t \in UnitTexts, l \in DOMAIN cultural_data}
  \cup
  {[method |-> "get_cultural_context", text |-> << >>, language |-> l,
    source |-> ""] : l \in ProfileCodes}
  \cup
  {[method |-> "detect_language", text |-> t, language |-> "",
    source |-> ""] : t \in DetectTexts}
  \cup
  {[method |-> "apply_cultural_adjustments", text |-> t, language |-> l,
    source |-> ""] : t \in UnitTexts, l \in DOMAIN cultural_data}
  \cup
  {[method |-> "add_detected_language", text |-> << >>, language |-> "",
    source |-> ""]}
  \cup
  {[method |-> "is_content_safe", text |-> t, language |-> "",
    source |-> ""] : t \in FilterTexts}
  \cup
  {[method |-> "generate_text_response", text |-> t, language |-> "",
    source |-> ""] : t \in {T_bonjour, T_image}}

\* The services are constructed, and one call is about to be made.
UnitInit ==
  /\ initialize_session_state
  /\ unit_call \in UnitCalls
  /\ unit_results = << >>
  /\ ChatSharing_init

\* MultilingualService.translate_text(text, language, source); the result is
\* kept with what each translator did and the translators that were invoked.
CallMultilingualTranslate(m2mOutcome, googleOutcome) ==
  /\ unit_call.method = "MultilingualService.translate_text"
  /\ unit_results = << >>
  /\ unit_results' =
       <<translate_text(m2m100_model, google_client, unit_call.text,
                        unit_call.language, unit_call.source, m2mOutcome,
                        googleOutcome),
         [m2m100 |-> m2mOutcome, google |-> googleOutcome,
          calls |-> translate_text_calls(m2m100_model, google_client,
                                         unit_call.text, unit_call.language,
                                         unit_call.source, m2mOutcome)]>>
  /\ UNCHANGED <<messages, session, services, pc, locals, unit_call,
                 share>>

\* TranslationService.translate_text(text, language, source)
CallGoogleTranslate(outcome) ==
  /\ unit_call.method = "TranslationService.translate_text"
  /\ unit_results = << >>
  /\ unit_results' =
       <<google_translate_text(google_client, unit_call.text,
                               unit_call.language, unit_call.source, outcome)>>
  /\ UNCHANGED <<messages, session, services, pc, locals, unit_call,
                 share>>

\* The number of times a text is passed through adjust_response_style.
MaxAdjustments == 2

\* CulturalContextService.adjust_response_style, called on the text and then
\* on its own result.
CallAdjust ==
  /\ unit_call.method = "adjust_response_style"
  /\ Len(unit_results) < MaxAdjustments
  /\ unit_results' =
       Append(unit_results,
              adjust_response_style(IF unit_results = << >>
                                      THEN unit_call.text
                                      ELSE unit_results[Len(unit_results)],
                                    unit_call.language))
  /\ UNCHANGED <<messages, session, services, pc, locals, unit_call,
                 share>>

\* CulturalContextService.get_cultural_context(language)
CallGetCulturalContext ==
  /\ unit_call.method = "get_cultural_context"
  /\ unit_results = << >>
  /\ unit_results' = <<get_cultural_context(unit_call.language)>>
  /\ UNCHANGED <<messages, session, services, pc, locals, unit_call,
                 share>>

\* LanguageDetectionService.detect_language(text), with what each detector
\* would answer for the text; the result is kept with these answers.
CallDetectLanguage(outputs) ==
  /\ unit_call.method = "detect_language"
  /\ unit_results = << >>
  /\ unit_results' =
       <<[outputs |-> outputs,
          result |-> detect_language(unit_call.text, outputs)]>>
  /\ UNCHANGED <<messages, session, services, pc, locals, unit_call,
                 share>>

\* process_user_input, "Prepare enhanced context", generate_ai_response in
\* a text conversation and GeminiService.generate_text_response(text,
\* conversation_history) with a client, in a conversation of n messages of
\* which the last one is the user's new message; the context of the prompt
\* is kept with the conversation.
CallTextConversation(n) ==
  /\ unit_call.method = "generate_text_response"
  /\ unit_results = << >>
  /\ gemini_client
  /\ n % 2 = 1
  /\ unit_results' =
       <<[messages |-> Conversation(n),
          context |->
            prompt_context(conversation_history(LastMessages(Conversation(n))))]>>
  /\ UNCHANGED <<messages, session, services, pc, locals, unit_call,
                 share>>

\* ContentFilter.is_content_safe(text)
CallIsContentSafe ==
  /\ unit_call.method = "is_content_safe"
  /\ unit_results = << >>
  /\ unit_results' = <<is_content_safe(unit_call.text)>>
  /\ UNCHANGED <<messages, session, services, pc, locals, unit_call,
                 share>>

\* generate_ai_response, "Apply cultural adjustments to response", on a
\* generated text, with the multilingual features enabled or not; the
\* response after the step is kept with the setting.
CallApplyCulturalAdjustments(enabled) ==
  /\ unit_call.method = "apply_cultural_adjustments"
  /\ unit_results = << >>
  /\ unit_results' =
       <<[enabled |-> enabled,
          response |->
            apply_cultural_adjustments(
              enabled, get_cultural_context(unit_call.language),
              [NoResponse EXCEPT !.text = unit_call.text,
                                 !.language = unit_call.language],
              unit_call.language)]>>
  /\ UNCHANGED <<messages, session, services, pc, locals, unit_call,
                 share>>

\* The number of calls of add_detected_language made in a row.
MaxAdds == 3

\* SessionManager.add_detected_language(language, confidence), called again
\* and again on the session; the calls made are counted.
CallAddDetectedLanguage(lang, confidence) ==
  /\ unit_call.method = "add_detected_language"
  /\ Len(unit_results) < MaxAdds
  /\ detected_languages' =
       add_detected_language(detected_languages, lang, confidence)
  /\ unit_results' = Append(unit_results, Len(unit_results) + 1)
  /\ UNCHANGED <<messages, ss_language, language_confidence,
                 language_auto_detected, auto_translate, services, pc,
                 locals, unit_call, share>>

UnitNext ==
  \/ \E m2mOutcome \in {"ok", "empty", "error"},
        googleOutcome \in {"ok", "error"} :
       CallMultilingualTranslate(m2mOutcome, googleOutcome)
  \/ \E outcome \in {"ok", "error"} : CallGoogleTranslate(outcome)
  \/ CallAdjust
  \/ CallGetCulturalContext
  \/ \E outputs \in [{"langdetect", "fasttext", "transformer"} ->
                        UnitDetectorOutputs] :
       CallDetectLanguage(outputs)
  \/ \E n \in 1..MaxHistory : CallTextConversation(n)
  \/ CallIsContentSafe
  \/ \E enabled \in BOOLEAN : CallApplyCulturalAdjustments(enabled)
  \/ \E lang \in Languages, confidence \in {8000, 9000, 9500} :
       CallAddDetectedLanguage(lang, confidence)

UnitSpec == UnitInit /\ [][UnitNext]_vars

-----------------------------------------------------------------------------
(* The share store, one request at a time *)

\* The clock stops at this tick.
MaxTime == 3

\* The number of views of one record that are counted.
MaxViews == 2

\* The messages of a conversation as process_user_input and
\* generate_ai_response build them: image says that there are image bytes.
M_user ==
  [role |-> "user", timestamp |-> "t1", text |-> T_bonjour, image |-> FALSE,
   original_language |-> "fr"]

M_user_image ==
  [role |-> "user", timestamp |-> "t1", text |-> << >>, image |-> TRUE,
   original_language |-> "fr"]

M_assistant ==
  [role |-> "assistant", timestamp |-> "t2", text |-> R_think,
   image |-> FALSE, language |-> "fr", cultural_context_applied |-> FALSE]

M_assistant_image ==
  [role |-> "assistant", timestamp |-> "t2", text |-> R_think,
   image |-> TRUE, language |-> "fr", cultural_context_applied |-> FALSE]

\* The conversations that are shared (the button shares a non-empty one).
ShareConversations ==
  {<<M_user_image, M_assistant>>, <<M_user, M_assistant_image>>}

\* The expiry_hours of a share link.
ExpiryHours == {1, 2}

\* The tokens uuid4 produces, in the order it produces them; a request may
\* present any of them.
ShareTokens == {1, 2}

\* ChatSharing.create_share_link(chat_id, messages, expiry_hours).  uuid4
\* gives a token never given before; elapsed is the time that passes
\* between datetime.now() of line 23 and datetime.now() of line 44.
CreateShareLink(msgs, expiry_hours, elapsed) ==
  /\ tokens_issued + 1 \in ShareTokens
  /\ now + elapsed <= MaxTime
  /\ LET share_token == tokens_issued + 1
         record == share_record("chat", msgs, expiry_hours, now,
                                now + elapsed)
     IN /\ shared_chats' =
             [t \in DOMAIN shared_chats \cup {share_token} |->
                IF t = share_token THEN record ELSE shared_chats[t]]
        /\ tokens_issued' = share_token
        /\ retrievals' = Append(retrievals, 0)
        /\ share_result' =
             [op |-> "create_share_link", share_token |-> share_token,
              value |-> None, current_time |-> now, messages |-> msgs,
              expiry_hours |-> expiry_hours]
  /\ now' = now + elapsed
  /\ UNCHANGED <<messages, session, services, pc, locals, unit, threads>>

\* ChatSharing.get_shared_chat(share_token)
GetSharedChat(share_token) ==
  LET got == get_shared_chat(shared_chats, share_token, now) IN
  /\ share_token \in DOMAIN shared_chats
       => shared_chats[share_token].view_count < MaxViews
  /\ shared_chats' = got.store
  /\ retrievals' = IF got.value # None
                     THEN [retrievals EXCEPT ![share_token] = @ + 1]
                     ELSE retrievals
  /\ share_result' =
       [op |-> "get_shared_chat", share_token |-> share_token,
        value |-> got.value, current_time |-> now, messages |-> << >>,
        expiry_hours |-> 0]
  /\ UNCHANGED <<messages, session, services, pc, locals, unit, now,
                 tokens_issued, threads>>

\* ChatSharing.export_shared_chat(share_token, format_type): the export
\* of the record get_shared_chat returns, None for an unknown format.
ExportSharedChat(share_token, format_type) ==
  LET got == get_shared_chat(shared_chats, share_token, now)
      shared_data == got.value[1]
      export ==
        IF got.value = None
          THEN None
        ELSE IF format_type = "json"
          THEN Some([chat_id |-> shared_data.chat_id,
                     shared_at |-> shared_data.created_at,
                     messages |-> shared_data.messages])
        ELSE IF format_type = "txt"
          THEN Some([chat_id |-> shared_data.chat_id,
                     shared_at |-> shared_data.created_at,
                     lines |->
                       [i \in 1..Len(shared_data.messages) |->
                          LET message == shared_data.messages[i] IN
                          [role |-> IF message.role = "user"
                                      THEN "User" ELSE "Assistant",
                           text |-> message.text,
                           image_attached |->
                             "has_image" \in DOMAIN message]]])
        ELSE None
  IN
  /\ share_token \in DOMAIN shared_chats
       => shared_chats[share_token].view_count < MaxViews
  /\ shared_chats' = got.store
  /\ retrievals' = IF got.value # None
                     THEN [retrievals EXCEPT ![share_token] = @ + 1]
                     ELSE retrievals
  /\ share_result' =
       [op |-> "export_shared_chat", share_token |-> share_token,
        value |-> export, current_time |-> now, messages |-> << >>,
        expiry_hours |-> 0]
  /\ UNCHANGED <<messages, session, services, pc, locals, unit, now,
                 tokens_issued, threads>>

\* ChatSharing.delete_shared_chat(share_token)
DeleteSharedChat(share_token) ==
  /\ shared_chats' = IF share_token \in DOMAIN shared_chats
                       THEN del(shared_chats, share_token)
                       ELSE shared_chats
  /\ share_result' =
       [op |-> "delete_shared_chat", share_token |-> share_token,
        value |-> Some(share_token \in DOMAIN shared_chats),
        current_time |-> 0, messages |-> << >>, expiry_hours |-> 0]
  /\ UNCHANGED <<messages, session, services, pc, locals, unit, now,
                 tokens_issued, retrievals, threads>>

\* ChatSharing.cleanup_expired_chats()
CleanupExpiredChats ==
  LET expired == expired_tokens(shared_chats, now) IN
  /\ shared_chats' = [t \in DOMAIN shared_chats \ expired |->
                        shared_chats[t]]
  /\ share_result' =
       [op |-> "cleanup_expired_chats", share_token |-> 0,
        value |-> Some(Cardinality(expired)), current_time |-> now,
        messages |-> << >>, expiry_hours |-> 0]
  /\ UNCHANGED <<messages, session, services, pc, locals, unit, now,
                 tokens_issued, retrievals, threads>>

\* ChatSharing.get_share_stats(share_token)
GetShareStats(share_token) ==
  /\ share_result' =
       [op |-> "get_share_stats", share_token |-> share_token,
        value |-> get_share_stats(shared_chats, share_token),
        current_time |-> 0, messages |-> << >>, expiry_hours |-> 0]
  /\ UNCHANGED <<messages, session, services, pc, locals, unit,
                 shared_chats, now, tokens_issued, retrievals, threads>>

\* Time passes.
Tick ==
  /\ now < MaxTime
  /\ now' = now + 1
  /\ UNCHANGED <<messages, session, services, pc, locals, unit,
                 shared_chats, tokens_issued, share_result, retrievals,
                 threads>>

ShareNext ==
  \/ \E msgs \in ShareConversations, expiry_hours \in ExpiryHours,
        elapsed \in {0, 1} :
       CreateShareLink(msgs, expiry_hours, elapsed)
  \/ \E share_token \in ShareTokens : GetSharedChat(share_token)
  \/ \E share_token \in ShareTokens, format_type \in {"json", "txt", "pdf"} :
       ExportSharedChat(share_token, format_type)
  \/ \E share_token \in ShareTokens : DeleteSharedChat(share_token)
  \/ CleanupExpiredChats
  \/ \E share_token \in ShareTokens : GetShareStats(share_token)
  \/ Tick

\* The services of the pipeline are constructed; the store is empty.
ShareInit == Init /\ gemini_client /\ m2m100_model /\ google_client

ShareSpec == ShareInit /\ [][ShareNext]_vars

-----------------------------------------------------------------------------
(* The share store under concurrent requests *)

\* initialize_services is a cache_resource: every session of the process
\* gets the one ChatSharing, and each session's script runs in a thread of
\* its own.  ChatSharing takes no lock, so the statements of two calls
\* interleave; a request is at one statement of its method.

\* The request raised an exception.
Raise(r, exception) ==
  threads' = [threads EXCEPT ![r].pc = "failed", ![r].failed = exception]

\* The request returned.
Return(r) == threads' = [threads EXCEPT ![r] = IdleThread]

\* get_shared_chat, line 55: the membership test.
GetCheck(r, share_token) ==
  /\ threads[r].pc = "idle"
  /\ IF share_token \notin DOMAIN shared_chats
       THEN Return(r)
       ELSE /\ shared_chats[share_token].view_count < MaxViews
            /\ threads' = [threads EXCEPT ![r].pc = "get_read",
                                          ![r].share_token = share_token]
  /\ UNCHANGED <<messages, session, services, pc, locals, unit,
                 shared_chats, now, tokens_issued, share_result, retrievals>>

\* get_shared_chat, line 58: shared_data = self.shared_chats[share_token]
GetRead(r) ==
  LET share_token == threads[r].share_token IN
  /\ threads[r].pc = "get_read"
  /\ IF share_token \notin DOMAIN shared_chats
       THEN Raise(r, "KeyError")
       ELSE threads' =
              [threads EXCEPT ![r].pc = "get_expiry",
                              ![r].shared_data =
                                Some(shared_chats[share_token])]
  /\ UNCHANGED <<messages, session, services, pc, locals, unit,
                 shared_chats, now, tokens_issued, share_result, retrievals>>

\* get_shared_chat, lines 61-62: datetime.now() > expiry_time
GetExpiry(r) ==
  /\ threads[r].pc = "get_expiry"
  /\ threads' =
       [threads EXCEPT ![r].pc =
          IF now > threads[r].shared_data[1].expires_at
            THEN "get_del" ELSE "get_load"]
  /\ UNCHANGED <<messages, session, services, pc, locals, unit,
                 shared_chats, now, tokens_issued, share_result, retrievals>>

\* get_shared_chat, lines 64-65: del self.shared_chats[share_token]
GetDel(r) ==
  LET share_token == threads[r].share_token IN
  /\ threads[r].pc = "get_del"
  /\ IF share_token \notin DOMAIN shared_chats
       THEN Raise(r, "KeyError") /\ UNCHANGED shared_chats
       ELSE Return(r) /\ shared_chats' = del(shared_chats, share_token)
  /\ UNCHANGED <<messages, session, services, pc, locals, unit, now,
                 tokens_issued, share_result, retrievals>>

\* get_shared_chat, line 68, the read of shared_data["view_count"].  The
\* dict is the stored one as long as the store holds the token; a dict that
\* was removed from the store is the request's own.
GetLoad(r) ==
  LET share_token == threads[r].share_token IN
  /\ threads[r].pc = "get_load"
  /\ threads' =
       [threads EXCEPT
          ![r].pc = "get_store",
          ![r].shared_data =
            IF share_token \in DOMAIN shared_chats
              THEN Some(shared_chats[share_token])
              ELSE threads[r].shared_data]
  /\ UNCHANGED <<messages, session, services, pc, locals, unit,
                 shared_chats, now, tokens_issued, share_result, retrievals>>

\* get_shared_chat, lines 68-70: the write of the view count read before,
\* plus one, and the return of the record.
GetStore(r) ==
  LET share_token == threads[r].share_token IN
  /\ threads[r].pc = "get_store"
  /\ shared_chats' =
       IF share_token \in DOMAIN shared_chats
         THEN [shared_chats EXCEPT ![share_token].view_count =
                 threads[r].shared_data[1].view_count + 1]
         ELSE shared_chats
  /\ retrievals' = [retrievals EXCEPT ![share_token] = @ + 1]
  /\ Return(r)
  /\ UNCHANGED <<messages, session, services, pc, locals, unit, now,
                 tokens_issued, share_result>>

\* delete_shared_chat, line 74: the membership test.
DeleteCheck(r, share_token) ==
  /\ threads[r].pc = "idle"
  /\ IF share_token \notin DOMAIN shared_chats
       THEN Return(r)
       ELSE threads' = [threads EXCEPT ![r].pc = "delete_del",
                                       ![r].share_token = share_token]
  /\ UNCHANGED <<messages, session, services, pc, locals, unit,
                 shared_chats, now, tokens_issued, share_result, retrievals>>

\* delete_shared_chat, lines 75-76
DeleteDel(r) ==
  LET share_token == threads[r].share_token IN
  /\ threads[r].pc = "delete_del"
  /\ IF share_token \notin DOMAIN shared_chats
       THEN Raise(r, "KeyError") /\ UNCHANGED shared_chats
       ELSE Return(r) /\ shared_chats' = del(shared_chats, share_token)
  /\ UNCHANGED <<messages, session, services, pc, locals, unit, now,
                 tokens_issued, share_result, retrievals>>

\* cleanup_expired_chats, lines 81-84: the time is read and the iteration
\* over the items of the dict begins; the iterator notes the dict's size.
\* Over an empty dict the iteration is over at once.
CleanupStart(r) ==
  /\ threads[r].pc = "idle"
  /\ threads' = [threads EXCEPT
                   ![r].pc = IF DOMAIN shared_chats = {}
                               THEN "cleanup_del" ELSE "cleanup_scan",
                   ![r].current_time = now,
                   ![r].di_used = Cardinality(DOMAIN shared_chats)]
  /\ UNCHANGED <<messages, session, services, pc, locals, unit,
                 shared_chats, now, tokens_issued, share_result, retrievals>>

\* cleanup_expired_chats, lines 84-87: the iteration goes on after the
\* body of the loop ran for an item.  A dict whose size changed since the
\* iteration began raises RuntimeError.
CleanupScan(r) ==
  /\ threads[r].pc = "cleanup_scan"
  /\ IF Cardinality(DOMAIN shared_chats) # threads[r].di_used
       THEN Raise(r, "RuntimeError")
       ELSE threads' =
              [threads EXCEPT
                 ![r].pc = "cleanup_del",
                 ![r].expired_tokens =
                   expired_tokens(shared_chats, threads[r].current_time)]
  /\ UNCHANGED <<messages, session, services, pc, locals, unit,
                 shared_chats, now, tokens_issued, share_result, retrievals>>

\* cleanup_expired_chats, lines 89-92: one del of the loop, or the return.
CleanupDel(r) ==
  /\ threads[r].pc = "cleanup_del"
  /\ IF threads[r].expired_tokens = {}
       THEN Return(r) /\ UNCHANGED shared_chats
       ELSE LET token == CHOOSE t \in threads[r].expired_tokens :
                           \A u \in threads[r].expired_tokens : t <= u
            IN IF token \notin DOMAIN shared_chats
                 THEN Raise(r, "KeyError") /\ UNCHANGED shared_chats
                 ELSE /\ shared_chats' = del(shared_chats, token)
                      /\ threads' =
                           [threads EXCEPT ![r].expired_tokens = @ \ {token}]
  /\ UNCHANGED <<messages, session, services, pc, locals, unit, now,
                 tokens_issued, share_result, retrievals>>

ConcurrentNext ==
  \/ CreateShareLink(<<M_user, M_assistant_image>>, 1, 0)
  \/ Tick
  \/ \E r \in Threads, share_token \in ShareTokens : GetCheck(r, share_token)
  \/ \E r \in Threads : GetRead(r)
  \/ \E r \in Threads : GetExpiry(r)
  \/ \E r \in Threads : GetDel(r)
  \/ \E r \in Threads : GetLoad(r)
  \/ \E r \in Threads : GetStore(r)
  \/ \E r \in Threads, share_token \in ShareTokens :
       DeleteCheck(r, share_token)
  \/ \E r \in Threads : DeleteDel(r)
  \/ \E r \in Threads : CleanupStart(r)
  \/ \E r \in Threads : CleanupScan(r)
  \/ \E r \in Threads : CleanupDel(r)

ConcurrentSpec == ShareInit /\ [][ConcurrentNext]_vars

-----------------------------------------------------------------------------
(* Properties of one turn *)

\* The methods of GeminiService, the generative backend.
BackendCalls == {"generate_text_response", "analyze_image", "generate_image"}

\* The turn is past its content filtering.
Filtered == pc \notin {"idle", "detect", "add_user", "filter"}

\* The message process_user_input appends as the response of the turn.
TurnReply == messages[Len(context_messages) + 1]

\* C1: whenever is_content_safe finds the user's text unsafe the turn stops
\* there: it is done, no method of the generative backend was called and
\* the conversation ends with the user's message; and a turn that is done
\* without such a rejection ends with an assistant message, so rejection is
\* the only thing that halts a turn.
C1_RejectionHaltsTurn ==
  LET unsafe == text_input # << >> /\ ~is_content_safe(text_input).safe IN
  /\ (Filtered /\ unsafe)
       => /\ pc = "done"
          /\ filter_reason # ""
          /\ \A i \in 1..Len(calls) : calls[i] \notin BackendCalls
          /\ messages[Len(messages)].role = "user"
  /\ (pc = "done" /\ ~unsafe)
       => /\ filter_reason = ""
          /\ messages[Len(messages)].role = "assistant"

\* A turn was rejected: "I hate this" matches a blocked pattern.
C1_Witness ==
  /\ pc = "done"
  /\ text_input = T_hate
  /\ filter_reason = "Content contains inappropriate material"
  /\ messages[Len(messages)].role = "user"

\* C2: for the input "How do I make a weapon?" is_content_safe returns
\* unsafe with the reason that mentions harmful content, and the turn is
\* done without a call of the generative backend.
C2_WeaponRejected ==
  (Filtered /\ text_input = T_weapon)
    => /\ ~is_content_safe(T_weapon).safe
       /\ filter_reason = "Request involves harmful content"
       /\ pc = "done"
       /\ \A i \in 1..Len(calls) : calls[i] \notin BackendCalls

\* C3: the content-safety check runs before the language detection, so a
\* turn rejected as unsafe has detected no language and has left the
\* session's language the one selected for the turn.
C3_FilterBeforeDetection ==
  /\ \A i, j \in 1..Len(calls) :
       (calls[i] = "is_content_safe" /\ calls[j] = "detect_language") => i < j
  /\ (pc = "done" /\ filter_reason # "")
       => /\ \A i \in 1..Len(calls) : calls[i] # "detect_language"
          /\ ss_language = selected_language
          /\ language = selected_language

\* C4: a failure of a detector, of the generative backend or of a translator
\* ends no turn: every turn that is done and that the filter did not reject
\* has appended an assistant message with a text, and the conversation ends
\* with such a message.
C4_TurnAlwaysAnswers ==
  (pc = "done" /\ filter_reason = "")
    => /\ Len(messages) > Len(context_messages)
       /\ TurnReply.role = "assistant"
       /\ TurnReply.text # << >>
       /\ messages[Len(messages)].role = "assistant"
       /\ messages[Len(messages)].text # << >>

\* A turn in French where every detector failed, the backend raised and no
\* translator translated, and which ended with an assistant message.
C4_Witness ==
  /\ pc = "done"
  /\ filter_reason = ""
  /\ language = "fr"
  /\ \E i \in 1..Len(calls) : calls[i] = "detect_language"
  /\ detection_confidence = 3000
  /\ Contains(Lower(TurnReply.text), Lower(RawError))
  /\ translated_by = "nobody"
  /\ TurnReply.role = "assistant"

\* C5: no raw error text of the generative backend reaches the user: no
\* assistant message holds the str(e) of the backend's exception, in
\* whatever case of its letters.
C5_NoRawBackendError ==
  \A i \in 1..Len(messages) :
    messages[i].role = "assistant"
      => ~Contains(Lower(messages[i].text), Lower(RawError))

\* C6: past the detection, the working language is the detected language
\* exactly when auto-detect is on, the text is not empty, the confidence is
\* over 0.7 and the detected language is not the selected one, and is the
\* selected language otherwise; the profile of the turn is the profile of
\* the working language ('en' selected and 'fr' detected at 0.95 gives 'fr'
\* and the formality very_high).
C6_LanguageSwitch ==
  /\ pc \notin {"idle", "detect"}
       => language = IF /\ auto_translate
                        /\ text_input # << >>
                        /\ detection_confidence > 7000
                        /\ detected_language # selected_language
                       THEN detected_language
                       ELSE selected_language
  /\ (Filtered /\ pc # "sensitivity" /\ pc # "generate" /\ filter_reason = "")
       => /\ cultural_context = get_cultural_context(language)
          /\ response.language = language
          /\ (/\ selected_language = "en"
              /\ auto_translate
              /\ text_input # << >>
              /\ detected_language = "fr"
              /\ detection_confidence = 9500)
               => /\ language = "fr"
                  /\ cultural_context.formality = "very_high"

\* 'en' was selected, "Bonjour, comment allez-vous?" was detected as 'fr' at
\* 0.95, and the turn was answered in French.
C6_Witness ==
  /\ pc = "done"
  /\ selected_language = "en"
  /\ text_input = T_bonjour
  /\ detected_language = "fr"
  /\ detection_confidence = 9500
  /\ language = "fr"
  /\ cultural_context.formality = "very_high"
  /\ TurnReply.language = "fr"

\* C7: the cultural-sensitivity check never rejects: whatever warnings it
\* returns, its step leads to the generation and leaves alone all that the
\* generation reads, and no turn with warnings is a rejected turn.
C7_SensitivityNeverRejects ==
  /\ [](cultural_warnings # << >> => filter_reason = "")
  /\ [][pc = "sensitivity"
          => /\ pc' = "generate"
             /\ UNCHANGED <<messages, session, services, text_input,
                            image_input, mode, selected_language, language,
                            detected_language, detection_confidence,
                            filter_reason, context_messages, cultural_context,
                            response>>]_vars

\* The check warned about a text, and the turn was answered.
C7_Witness ==
  /\ pc = "done"
  /\ cultural_warnings # << >>
  /\ \E i \in 1..Len(calls) : calls[i] \in BackendCalls
  /\ TurnReply.role = "assistant"

\* C8 as it is stated: when the working language is not 'en' and no
\* translator translated, the delivered text is exactly the adapted text.
C8_DeliveredIsAdapted ==
  (pc = "done" /\ language # "en" /\ translated_by = "nobody")
    => /\ TurnReply.role = "assistant"
       /\ TurnReply.text = adapted_text

\* C8: when the working language is not 'en' and no translator translated,
\* the assistant message is delivered and its text is the adapted text,
\* with nothing before it but the greeting and "! ", and with no greeting
\* when the turn has an image or is not the first message.
C8_DeliveredIsAdaptedAfterGreeting ==
  (pc = "done" /\ language # "en" /\ translated_by = "nobody")
    => LET greeting == get_appropriate_greeting(language, "moderate") IN
       /\ TurnReply.role = "assistant"
       /\ TurnReply.text \in
            {adapted_text, greeting \o <<"!", " ">> \o adapted_text}
       /\ (image_input \/ Len(context_messages) > 1)
            => TurnReply.text = adapted_text

\* Neither translator is there, the language is French, and the adapted text
\* was delivered after the greeting.
C8_Witness ==
  /\ pc = "done"
  /\ language = "fr"
  /\ ~m2m100_model
  /\ ~google_client
  /\ translated_by = "nobody"
  /\ adapted_text # << >>
  /\ TurnReply.text =
       get_appropriate_greeting("fr", "moderate") \o <<"!", " ">>
         \o adapted_text

\* C9: translate(text, L, L) returns text, by either translator and whether
\* or not a translation backend is there.
C9_TranslateIdentity ==
  (/\ unit_call.method \in {"MultilingualService.translate_text",
                            "TranslationService.translate_text"}
   /\ unit_call.source = unit_call.language
   /\ unit_results # << >>)
    => unit_results[1] = Some(unit_call.text)

\* C10: adjust_response_style is idempotent: adjusting an adjusted text
\* returns it as it is.
C10_AdjustIdempotent ==
  (unit_call.method = "adjust_response_style" /\ Len(unit_results) = 2)
    => unit_results[2] = unit_results[1]

\* C11: a finished turn's text is its final text (the adapted text, or its
\* translation) with the greeting of the working language and "! " put
\* before it exactly when the turn is the conversation's first assistant
\* turn, the user message has no image, and the final text does not start
\* with a greeting of the language; on a later turn it is the final text.
C11_GreetingOnFirstTurn ==
  (pc = "done" /\ filter_reason = "")
    => LET greeting == get_appropriate_greeting(language, "moderate")
           known == IF language \in DOMAIN greeting_patterns["formal"]
                      THEN {greeting_patterns[f][language] :
                              f \in {"formal", "informal"}}
                      ELSE {greeting}
           final == IF translated_by = "google"
                      THEN GoogleOutput(adapted_text, language)
                    ELSE IF translated_by = "m2m100"
                      THEN M2M100Output(adapted_text, language)
                    ELSE adapted_text
           first == \A i \in 1..Len(context_messages) :
                      context_messages[i].role # "assistant"
           starts == \E g \in known :
                       /\ Len(g) <= Len(final)
                       /\ Lower(SubSeq(final, 1, Len(g))) = Lower(g)
       IN /\ TurnReply.text \in {final, greeting \o <<"!", " ">> \o final}
          /\ (TurnReply.text = greeting \o <<"!", " ">> \o final)
               <=> (first /\ ~image_input /\ ~starts)

-----------------------------------------------------------------------------
(* Properties of the cultural profiles and of the language detection *)

\* C12: get_cultural_context answers every language code with a non-empty
\* profile: the profile of the code when the profile table holds it, and
\* exactly the 'en' profile when it does not.
C12_ProfileAlwaysResolvable ==
  (unit_call.method = "get_cultural_context" /\ unit_results # << >>)
    => LET profile == unit_results[1]
       IN /\ DOMAIN profile # {}
          /\ profile.region # ""
          /\ unit_call.language \in DOMAIN cultural_data
               => profile = cultural_data[unit_call.language]
          /\ unit_call.language \notin DOMAIN cultural_data
               => profile = cultural_data["en"]

\* A profile was asked for a code the profile table does not hold, and the
\* 'en' profile was returned.
C12_Witness ==
  /\ unit_call.method = "get_cultural_context"
  /\ unit_call.language = "ko"
  /\ unit_results = <<cultural_data["en"]>>

\* C18: for a short text detect_language returns exactly ('en', 0.5),
\* whatever the detectors would answer for the text.
C18_ShortTextDefault ==
  (/\ unit_call.method = "detect_language"
   /\ unit_results # << >>
   /\ CharLen(Strip(unit_call.text)) < 3)
    => unit_results[1].result = [lang |-> "en", conf |-> 5000]

\* A text of two characters between blanks was detected while all three
\* detectors would have answered 'fr', and the result is ('en', 0.5).
C18_Witness ==
  /\ unit_call.method = "detect_language"
  /\ unit_call.text = <<" ", "Hi", " ">>
  /\ unit_results # << >>
  /\ \A m \in DOMAIN unit_results[1].outputs :
       unit_results[1].outputs[m] = Some(<<"fr", 95>>)
  /\ unit_results[1].result = [lang |-> "en", conf |-> 5000]

\* C19 as stated: the confidence returned by detect_language is in [0, 1]
\* for every text and every combination of detector outputs, and with no
\* detector output the result is ('en', 0.3).
C19_ConfidenceInRange ==
  (unit_call.method = "detect_language" /\ unit_results # << >>)
    => LET r == unit_results[1]
       IN /\ r.result.conf \in 0..10000
          /\ (\A m \in DOMAIN r.outputs : r.outputs[m] = None)
               => r.result = [lang |-> "en", conf |-> 3000]

\* C19 amended: the confidence is in [0, 1] for every text and every
\* combination of detector outputs, and for a text of trimmed length 3 or
\* more with no detector output the result is ('en', 0.3).
C19_ConfidenceInRangeLongText ==
  (unit_call.method = "detect_language" /\ unit_results # << >>)
    => LET r == unit_results[1]
       IN /\ r.result.conf \in 0..10000
          /\ (/\ CharLen(Strip(unit_call.text)) >= 3
              /\ \A m \in DOMAIN r.outputs : r.outputs[m] = None)
               => r.result = [lang |-> "en", conf |-> 3000]

\* A text of three characters was detected with no detector output, and
\* the result is ('en', 0.3).
C19_Witness ==
  /\ unit_call.method = "detect_language"
  /\ unit_call.text = <<"Hi", "!">>
  /\ unit_results # << >>
  /\ \A m \in DOMAIN unit_results[1].outputs :
       unit_results[1].outputs[m] = None
  /\ unit_results[1].result = [lang |-> "en", conf |-> 3000]

-----------------------------------------------------------------------------
(* Properties of the share store *)

\* C13: a retrieval (get_shared_chat, or export_shared_chat through it) of
\* a token whose record has expired (now > expires_at), or that the store
\* does not hold, returns not-found and leaves the store without the token;
\* and a token once gone from the store never comes back, so every later
\* retrieval of it returns not-found as well.
C13_ExpiredNeverReturned ==
  [][/\ \A share_token \in ShareTokens :
          (/\ \/ share_token \notin DOMAIN shared_chats
              \/ now > shared_chats[share_token].expires_at
           /\ share_result'.share_token = share_token
           /\ \/ GetSharedChat(share_token)
              \/ \E format_type \in {"json", "txt", "pdf"} :
                   ExportSharedChat(share_token, format_type))
            => /\ share_result'.value = None
               /\ share_token \notin DOMAIN shared_chats'
     /\ \A share_token \in 1..tokens_issued :
          share_token \notin DOMAIN shared_chats
            => share_token \notin DOMAIN shared_chats']_vars

\* A retrieval found the record of token 1 expired: it returned not-found
\* and the record, which had been returned once while it was live, is gone.
C13_Witness ==
  /\ share_result.op \in {"get_shared_chat", "export_shared_chat"}
  /\ share_result.share_token = 1
  /\ share_result.value = None
  /\ share_result.current_time > TicksPerHour
  /\ retrievals # << >> /\ retrievals[1] = 1
  /\ 1 \notin DOMAIN shared_chats

\* C14: for every record in the share store, expires_at is created_at plus
\* the TTL (expiry_hours) given at its creation.
C14_ExpiryIsCreationPlusTTL ==
  (/\ share_result.op = "create_share_link"
   /\ share_result.share_token \in DOMAIN shared_chats)
    => LET record == shared_chats[share_result.share_token]
       IN record.expires_at
            = record.created_at + share_result.expiry_hours * TicksPerHour

\* C15: a record's view count starts at 0 and never decreases; a
\* get_shared_chat that returns the record raises it by exactly one, and a
\* step of any other kind (a failed lookup, get_share_stats, the creation
\* of another token, a cleanup, a deletion of another token, the passing of
\* time) leaves it unchanged.
C15_ViewCountOnlyRetrievals ==
  [][\A share_token \in ShareTokens :
       /\ (share_token \notin DOMAIN shared_chats
           /\ share_token \in DOMAIN shared_chats')
            => shared_chats'[share_token].view_count = 0
       /\ (share_token \in DOMAIN shared_chats
           /\ share_token \in DOMAIN shared_chats')
            => LET retrieved ==
                     /\ now <= shared_chats[share_token].expires_at
                     /\ share_result'.share_token = share_token
                     /\ \/ GetSharedChat(share_token)
                        \/ \E format_type \in {"json", "txt", "pdf"} :
                             ExportSharedChat(share_token, format_type)
               IN shared_chats'[share_token].view_count
                    = shared_chats[share_token].view_count
                        + (IF retrieved THEN 1 ELSE 0)]_vars

\* The record of token 1 has been returned twice, and another token was
\* created, looked at through get_share_stats and is still unviewed.
C15_Witness ==
  /\ DOMAIN shared_chats = {1, 2}
  /\ shared_chats[1].view_count = 2
  /\ shared_chats[2].view_count = 0
  /\ share_result.op = "get_share_stats"
  /\ share_result.share_token = 2

\* C17: every message of every stored record holds role, timestamp and
\* text, and besides them only has_image, which is TRUE; and has_image is
\* there exactly when the message that was shared held an image.
C17_NoBinaryPayloadStored ==
  /\ \A share_token \in DOMAIN shared_chats :
       \A i \in 1..Len(shared_chats[share_token].messages) :
         LET message == shared_chats[share_token].messages[i]
         IN /\ {"role", "timestamp", "text"} \subseteq DOMAIN message
            /\ DOMAIN message
                 \subseteq {"role", "timestamp", "text", "has_image"}
            /\ "has_image" \in DOMAIN message => message.has_image = TRUE
  /\ (/\ share_result.op = "create_share_link"
      /\ share_result.share_token \in DOMAIN shared_chats)
       => LET stored == shared_chats[share_result.share_token].messages
              original == share_result.messages
          IN /\ Len(stored) = Len(original)
             /\ \A i \in 1..Len(original) :
                  /\ ("has_image" \in DOMAIN stored[i]) <=> original[i].image
                  /\ stored[i].role = original[i].role
                  /\ stored[i].timestamp = original[i].timestamp
                  /\ stored[i].text = original[i].text

\* A conversation whose user message holds an image and whose assistant
\* message holds none has been shared.
C17_Witness ==
  /\ share_result.op = "create_share_link"
  /\ share_result.messages = <<M_user_image, M_assistant>>
  /\ share_result.share_token \in DOMAIN shared_chats
  /\ shared_chats[share_result.share_token].messages
       = << [role |-> "user", timestamp |-> "t1", text |-> << >>,
             has_image |-> TRUE],
            [role |-> "assistant", timestamp |-> "t2", text |-> R_think] >>


\* C16: under concurrent requests on the one store no request fails
\* because another request removed the record between its membership test
\* and its use (or changed the store under its iteration), and the view
\* count of every stored record is the number of retrievals that returned
\* it.
C16_ConcurrentRequestsSafe ==
  /\ \A r \in Threads : threads[r].failed = ""
  /\ \A share_token \in DOMAIN shared_chats :
       shared_chats[share_token].view_count = retrievals[share_token]

\* C20: when the turn generated an image, its assistant message carries
\* the image and a non-empty text that holds the user's prompt between
\* quotes as the user wrote it, in the formal wording when the formality of
\* the language's profile is high or very_high and in the plain wording
\* otherwise (the wording whatever its case).
C20_ImageCaptionQuotesPrompt ==
  (/\ pc = "done"
   /\ filter_reason = ""
   /\ \E i \in 1..Len(calls) : calls[i] = "generate_image"
   /\ response.image)
    => LET formal == get_cultural_context(language).formality
                       \in {"very_high", "high"}
           caption == IF formal THEN ImageCaptionFormal(text_input)
                                ELSE ImageCaptionPlain(text_input)
       IN /\ TurnReply.role = "assistant"
          /\ TurnReply.image
          /\ TurnReply.text # << >>
          /\ Contains(Lower(TurnReply.text), Lower(caption))
          /\ Contains(TurnReply.text, <<"'">> \o text_input \o <<"'">>)


C22_TranslatorsInFixedOrder ==
  (/\ unit_call.method = "MultilingualService.translate_text"
   /\ unit_results # << >>
   /\ unit_call.text # << >>
   /\ unit_call.source # ""
   /\ unit_call.source # unit_call.language)
    => LET value == unit_results[1]
           did == unit_results[2]
           primary == "translate_with_m2m100"
           secondary == "google_translate.translate_text"
           primary_ok == m2m100_model /\ did.m2m100 = "ok"
           secondary_ok == google_client /\ did.google = "ok"
       IN /\ did.calls \in {<< >>, <<primary>>, <<secondary>>,
                            <<primary, secondary>>}
          /\ (did.calls # << >> /\ did.calls[1] = primary) <=> m2m100_model
          /\ primary_ok
               => /\ value = Some(M2M100Output(unit_call.text,
                                                unit_call.language))
                  /\ did.calls = <<primary>>
          /\ ~primary_ok
               => /\ (did.calls # << >>
                        /\ did.calls[Len(did.calls)] = secondary)
                       <=> google_client
                  /\ secondary_ok
                       => value = Some(GoogleOutput(unit_call.text,
                                                    unit_call.language))
                  /\ ~secondary_ok => value = None

\* C22 witness: M2M100 is loaded and raises, and the Google translator, called
\* after it, gives the result.
C22_Witness ==
  /\ unit_call.method = "MultilingualService.translate_text"
  /\ unit_call.source = "en"
  /\ unit_call.language = "fr"
  /\ unit_call.text # << >>
  /\ unit_results # << >>
  /\ m2m100_model
  /\ unit_results[2].m2m100 = "error"
  /\ unit_results[2].calls =
       <<"translate_with_m2m100", "google_translate.translate_text">>
  /\ unit_results[1] = Some(GoogleOutput(unit_call.text, "fr"))

\* C23: every application of adjust_response_style equals the formality
\* step, then one directness step, then the context step, each taken exactly
\* under the condition of the language's profile: the politeness marker for
\* formality high or very_high, the hedging phrase for directness low, the
\* softening suffix for directness very_low, the context marker for context
\* high or very_high on a text of more than 50 characters.  The two
\* directness steps never both act on one text, a step whose language has no
\* resource leaves the text as it is, and a step whose condition and resource
\* are there and whose guard phrases are absent changes the text.
C23_StepsInFixedOrder ==
  unit_call.method = "adjust_response_style"
    => \A k \in 1..Len(unit_results) :
         LET x == IF k = 1 THEN unit_call.text ELSE unit_results[k - 1]
             y == unit_results[k]
             l == unit_call.language
             profile == cultural_data[l]
             formal == profile.formality \in {"high", "very_high"}
             low == profile.directness = "low"
             very_low == profile.directness = "very_low"
             shared == profile.context \in {"high", "very_high"}
             x1 == IF formal THEN increase_formality(x, l) ELSE x
             x2 == IF low THEN reduce_directness(x1, l) ELSE x1
             x3 == IF very_low THEN add_indirectness(x2, l) ELSE x2
             x4 == IF shared THEN add_context_markers(x3, l) ELSE x3
             polite == {"ja", "de", "fr", "zh"}
             soft == {"ja", "zh"}
             HasAny(z, phrases) ==
               \E i \in 1..Len(phrases) : Contains(z, phrases[i])
         IN /\ y = x4
            /\ ~(x2 # x1 /\ x3 # x2)
            /\ l \notin polite => x1 = x
            /\ l \notin soft => x3 = x2
            /\ (l \notin DOMAIN context_markers \/ CharLen(x3) <= 50)
                 => x4 = x3
            /\ (formal /\ l \in polite
                /\ ~HasAny(Lower(x), profile.politeness_markers))
                 => x1 # x
            /\ (low /\ ~HasAny(Lower(x1),
                               [i \in 1..Len(softening_phrases[l]) |->
                                  Lower(softening_phrases[l][i])]))
                 => /\ x2 = softening_phrases[l][1] \o <<" ">> \o Lower(x1)
                    /\ x2 # x1
            /\ (shared /\ l \in DOMAIN context_markers /\ CharLen(x3) > 50)
                 => x4 = context_markers[l][1] \o <<",", " ">> \o x3

\* C23 witness: a Chinese text of more than 50 characters got all three of
\* its steps: the context marker stands first, the hedging phrase after it,
\* and the politeness marker after that.
C23_Witness ==
  /\ unit_call.method = "adjust_response_style"
  /\ unit_call.language = "zh"
  /\ unit_call.text = R_long
  /\ Len(unit_results) >= 1
  /\ unit_results[1] =
       <<"zh_zhongsuozhouzhi", ",", " ", "zh_wojuede", " ", "zh_qing",
         "zh_wen", "zh_comma">> \o Lower(R_long)
  /\ CharLen(R_long) > 50

\* C24: a turn calls the generative backend at most once, and the operation
\* called is the one its mode chooses: image generation for the mode Image
\* Generation, or Mixed with a text that holds both "generate" and "image";
\* else image analysis for the mode Image Analysis, or Mixed with an image
\* attached; else the text conversation.  A turn past the dispatch made no
\* call exactly when the chosen operation had no input: image generation
\* without a text, image analysis without an image.
C24_BackendChosenByMode ==
  LET made == SelectSeq(calls, LAMBDA c : c \in BackendCalls)
      words == Lower(text_input)
      chosen ==
        IF \/ mode = "Image Generation"
           \/ /\ mode = "Mixed"
              /\ Contains(words, <<"generate">>)
              /\ Contains(words, <<"image">>)
          THEN "generate_image"
        ELSE IF mode = "Image Analysis" \/ (mode = "Mixed" /\ image_input)
          THEN "analyze_image"
        ELSE "generate_text_response"
      no_input == \/ chosen = "generate_image" /\ text_input = << >>
                  \/ chosen = "analyze_image" /\ ~image_input
  IN /\ Len(made) <= 1
     /\ made # << >> => made = <<chosen>>
     /\ pc \in {"adjust", "translate", "greeting", "append"}
          => (made = << >> <=> no_input)

\* C24 witness: in the mode Mixed the text "Generate an image of a cat" with
\* an image attached went to image generation, and to nothing else.
C24_Witness ==
  /\ pc = "done"
  /\ mode = "Mixed"
  /\ text_input = T_image
  /\ image_input
  /\ SelectSeq(calls, LAMBDA c : c \in BackendCalls) = <<"generate_image">>

\* C25: the context in the prompt of a text conversation is the last 10
\* messages of the conversation, and all of them when it has fewer than 10.
C25_ContextIsLastTen ==
  (unit_call.method = "generate_text_response" /\ unit_results # << >>)
    => LET conversation == unit_results[1].messages
           n == Len(conversation)
           size == IF n < 10 THEN n ELSE 10
           last(i) == conversation[n - size + i]
       IN unit_results[1].context =
            [i \in 1..size |->
               <<IF last(i).role = "user" THEN "User" ELSE "Assistant",
                 last(i).text>>]

\* C26: is_content_safe reports the reason of the first of its three rules
\* that the text meets, in the order blocked patterns, harmful requests,
\* image-generation request with an explicit or violent keyword; it approves
\* exactly the texts that meet none of them; and the answer for a text is
\* the answer for the same text in lower case.
C26_FirstMatchingRuleWins ==
  (unit_call.method = "is_content_safe" /\ unit_results # << >>)
    => LET text == unit_call.text
           words == Lower(text)
           answer == unit_results[1]
           rule1 == \E k \in 1..Len(blocked_patterns) :
                      WordSearch(blocked_patterns[k], text)
           rule2 == \E k \in 1..Len(harmful_requests) :
                      Contains(words, harmful_requests[k])
           rule3 == /\ \E kw \in {"generate", "create", "make"} :
                         Contains(words, <<kw>>)
                    /\ Contains(words, <<"image">>)
                    /\ \E w \in {"nude", "naked", "explicit", "sexual",
                                 "violence", "weapon"} :
                         Contains(words, <<w>>)
       IN /\ answer.safe <=> ~(rule1 \/ rule2 \/ rule3)
          /\ rule1 => answer.reason = "Content contains inappropriate material"
          /\ (~rule1 /\ rule2)
               => answer.reason = "Request involves harmful content"
          /\ (~rule1 /\ ~rule2 /\ rule3)
               => answer.reason = "Inappropriate image generation request"
          /\ answer.safe => answer.reason \in {"Content approved",
                                               "Empty content"}
          /\ answer = is_content_safe(words)

\* C26 witness: "How to harm someone" meets the blocked patterns and the
\* harmful requests, and the reason given is that of the blocked patterns.
C26_Witness ==
  /\ unit_call.method = "is_content_safe"
  /\ unit_call.text = F_harm
  /\ unit_results # << >>
  /\ Contains(Lower(F_harm), harmful_requests[2])
  /\ unit_results[1] =
       [safe |-> FALSE, reason |-> "Content contains inappropriate material"]

\* C27: a turn appends at most one assistant message: after the messages
\* the turn started from, either the response or the error response, never
\* both.
C27_AtMostOneAssistantMessage ==
  (pc = "done" /\ filter_reason = "")
    => Cardinality({i \in (Len(context_messages) + 1)..Len(messages) :
                      messages[i].role = "assistant"}) <= 1

\* C28: a turn the filter rejected ends with the user's message as the last
\* message of the conversation, so with no assistant message for it; the
\* conversation never loses or changes a message it holds; and a turn that
\* follows an unanswered user message gets no greeting: its reply is the
\* final text of the turn as it is.
C28_RejectedTurnLeavesUserMessage ==
  /\ [](LET rejected == pc = "done" /\ filter_reason # ""
             unanswered ==
               /\ pc = "done"
               /\ filter_reason = ""
               /\ Len(context_messages) >= 2
               /\ context_messages[Len(context_messages) - 1].role = "user"
             final == IF translated_by = "google"
                        THEN GoogleOutput(adapted_text, language)
                      ELSE IF translated_by = "m2m100"
                        THEN M2M100Output(adapted_text, language)
                      ELSE adapted_text
         IN /\ rejected
                 => /\ messages # << >>
                    /\ messages[Len(messages)] =
                         [role |-> "user", text |-> text_input,
                          image |-> image_input]
            /\ unanswered => TurnReply.text = final)
  /\ [][/\ Len(messages') >= Len(messages)
        /\ SubSeq(messages', 1, Len(messages)) = messages]_vars

\* C28 witness: "I hate this" was rejected and stayed without a reply, and
\* the reply to the message after it carries no greeting.
C28_Witness ==
  /\ pc = "done"
  /\ filter_reason = ""
  /\ Len(messages) >= 3
  /\ messages[1] = [role |-> "user", text |-> T_hate, image |-> FALSE]
  /\ messages[2] = [role |-> "user", text |-> T_bonjour, image |-> FALSE]
  /\ messages[3].role = "assistant"
  /\ messages[3].text = R_long

\* C29: after the adaptation step of generate_ai_response the flag
\* cultural_context_applied is set exactly when the step ran (multilingual
\* features enabled, a text generated) and adjust_response_style gave a text
\* other than the generated one, which is then the response's text; the flag
\* is not set for an empty text, for a text the adaptation left as it was,
\* and with the multilingual features disabled, and the text is then the
\* generated one.
C29_FlagIffTextAdapted ==
  (unit_call.method = "apply_cultural_adjustments" /\ unit_results # << >>)
    => LET generated == unit_call.text
           after == unit_results[1].response
           ran == unit_results[1].enabled /\ generated # << >>
           adapted == adjust_response_style(generated, unit_call.language)
       IN /\ after.cultural_context_applied <=> (ran /\ adapted # generated)
          /\ after.cultural_context_applied <=> after.text # generated
          /\ after.cultural_context_applied => after.text = adapted
          /\ generated = << >> => ~after.cultural_context_applied
          /\ ~unit_results[1].enabled => ~after.cultural_context_applied

\* C29 witness: the adaptation ran on an English text, left it as it was,
\* and the flag is not set.
C29_Witness ==
  /\ unit_call.method = "apply_cultural_adjustments"
  /\ unit_call.language = "en"
  /\ unit_call.text = R_long
  /\ unit_results # << >>
  /\ unit_results[1].enabled
  /\ unit_results[1].response.text = R_long
  /\ ~unit_results[1].response.cultural_context_applied

\* C30: after any calls of add_detected_language the session's list has at
\* most 5 entries, holds no language twice, and is in the order of
\* descending confidence.
C30_DetectedLanguagesSorted ==
  unit_call.method = "add_detected_language"
    => /\ Len(detected_languages) <= 5
       /\ \A i, j \in 1..Len(detected_languages) :
            detected_languages[i][1] = detected_languages[j][1] => i = j
       /\ \A i \in 1..(Len(detected_languages) - 1) :
            detected_languages[i][2] >= detected_languages[i + 1][2]

====
